---- MODULE Spec2Model ----
(***************************************************************************)
(* A model of loki's dependency scheduler (src/loki/scheduler.py) and of  *)
(* the source index it builds from loki.build.Obj (src/loki/build/obj.py). *)
(*                                                                         *)
(* A "world" is what lies outside the Scheduler: the scanned source files  *)
(* (what the regex scan and the frontend see in them) and the two-level    *)
(* configuration.  Init draws the world from a bounded family; the         *)
(* Scheduler's fields are the other variables.                             *)
(*                                                                         *)
(* Spec is one Scheduler under append, populate and process calls;         *)
(* LiveSpec is Spec with calls that run to their end; CacheSpec is several *)
(* Schedulers built in one process over the instance cache of Obj;         *)
(* ScriptSpec is the TaskScheduler of src/scripts/scheduler.py.            *)
(***************************************************************************)
EXTENDS Integers, Sequences, FiniteSets, TLC

VARIABLES
    world,      \* the source tree and the configuration (never changes)
    obj_map,    \* Scheduler.obj_map: routine name -> index of the file of its Obj
    item_map,   \* Scheduler.item_map: name -> Task
    queue,      \* Scheduler.queue: deque of Tasks (by name)
    nodes,      \* Scheduler.taskgraph nodes, in insertion order
    edges,      \* Scheduler.taskgraph edges: set of <<caller, callee>>
    processed,  \* Scheduler.processed
    pc,         \* where the single thread of control is
    item,       \* populate: the Task popped from the queue
    todo,       \* populate: the children of item still to be looked at
    enrichTodo, \* populate: the nodes the enrichment pass has still to visit
    enriched,   \* the Tasks whose enrich() has run
    visited,    \* process: the Tasks yielded by topological_sort in this call
    last,       \* the last call that ended: [op, ok, err, arg]
    roots,      \* the names registered by a caller's own append
    aborted,    \* a populate call has raised while the queue was being drained
    ncalls,     \* the number of calls made so far
    passed,     \* Task name -> the `routines` its enrich() was last called with
    obj_cache,  \* the process-wide instance cache of Obj: lower-cased stem -> file
    schedulers, \* the source indexes of the Schedulers built before in this process
    invoked     \* scripts/scheduler.py: the Tasks whose kernel process has called

vars == << world, obj_map, item_map, queue, nodes, edges, processed, pc, item,
           todo, enrichTodo, enriched, visited, last, roots, aborted, ncalls,
           passed, obj_cache, schedulers, invoked >>

(***************************************************************************)
(* Bounds of the model.                                                    *)
(***************************************************************************)
MaxCalls == 3    \* calls of append / populate / process in one run
MaxAppend == 2   \* names in one append call

(***************************************************************************)
(* Strings.  str.lower() on the names the worlds use.                      *)
(***************************************************************************)
Lower(s) ==
    CASE s = "A" -> "a"
      [] s = "B" -> "b"
      [] s = "C" -> "c"
      [] s = "driverA" -> "drivera"
      [] s = "driverB" -> "driverb"
      [] s = "kernelA" -> "kernela"
      [] s = "DR_HOOK" -> "dr_hook"
      [] OTHER -> s

SeqToSet(s) == { s[i] : i \in 1..Len(s) }

Max(S) == CHOOSE x \in S : \A y \in S : y <= x

Min(S) == CHOOSE x \in S : \A y \in S : x <= y

(* The sequences over S of length 1..n. *)
SeqsUpTo(S, n) == UNION { [1..k -> S] : k \in 1..n }

(***************************************************************************)
(* The world: files and configuration.                                     *)
(***************************************************************************)
(* One subroutine as the frontend returns it: its name, the names of the   *)
(* CallStatements of its body in order, the names of its member routines.  *)
Sub(name, calls, members) == [name |-> name, calls |-> calls, members |-> members]

(* One scanned file: its stem, the subroutines it defines in order,        *)
(* whether the path still exists when a Task is built, whether             *)
(* SourceFile.from_file parses it, the modules it defines.                 *)
File(stem, subs, exists, parses) ==
    [stem |-> stem, subs |-> subs, exists |-> exists, parses |-> parses, mods |-> {}]

(* The file f with the modules M around its subroutines. *)
WithModules(f, M) == [f EXCEPT !.mods = M]

(* A file that defines one routine named like the file. *)
One(name, calls) == File(name, << Sub(name, calls, {}) >>, TRUE, TRUE)

(* The default record of the tests (src/tests/test_scheduler.py:62-71). *)
TestDefault ==
    [mode |-> "idem", role |-> "kernel", expand |-> TRUE, strict |-> TRUE,
     blacklist |-> {}]

NoRoutines == [n \in {} |-> [k \in {} |-> TRUE]]

(* What a scheduler run is given: the scanned files, the config (default  *)
(* record and per-routine overrides), the names its caller may append, the *)
(* routines on which the transformation handed to process raises, and      *)
(* whether `import graphviz` has succeeded.                                *)
World(files, default, routines, names) ==
    [files |-> files, default |-> default, routines |-> routines, names |-> names,
     raises |-> {}, gviz |-> FALSE, kernel_map |-> << >>]

(* The world w with a transformation whose apply raises on the routines S. *)
Raising(w, S) == [w EXCEPT !.raises = S]

(* The world w with the kernel_map km handed to a TaskScheduler            *)
(* (src/scripts/scheduler.py): mode -> role -> kernel, "None" for None.    *)
WithKernels(w, km) == [w EXCEPT !.kernel_map = km]

(* The world w with the graphviz package installed: self.graph is a        *)
(* Digraph and not None.                                                   *)
WithGraph(w) == [w EXCEPT !.gviz = TRUE]

(***************************************************************************)
(* The family of worlds.  Three routines a, b, c, each in its own file,   *)
(* with the acyclic call structures over a -> b, a -> c, b -> c, under    *)
(* the default record of the tests with or without c blacklisted, and at  *)
(* most one per-routine override: expand off, a blacklist, an ignore      *)
(* list, or (b_white_c) a blacklist emptied again.                         *)
(***************************************************************************)
Override(kind) ==
    CASE kind = "a_noexpand" -> ("a" :> [expand |-> FALSE])
      [] kind = "b_noexpand" -> ("b" :> [expand |-> FALSE])
      [] kind = "a_black_c"  -> ("a" :> [blacklist |-> {"c"}])
      [] kind = "b_black_c"  -> ("b" :> [blacklist |-> {"c"}])
      [] kind = "a_ignore_c" -> ("a" :> [ignore |-> {"c"}])
      [] kind = "a_ignore_b" -> ("a" :> [ignore |-> {"b"}])
      [] kind = "b_white_c"  -> ("b" :> [blacklist |-> {}, role |-> "driver"])
      [] OTHER -> NoRoutines

GenWorld(ab, ac, bc, dbl, kind) ==
    World(<< One("a", (IF ab THEN << "b" >> ELSE << >>) \o
                      (IF ac THEN << "c" >> ELSE << >>)),
             One("b", IF bc THEN << "c" >> ELSE << >>),
             One("c", << >>) >>,
          [TestDefault EXCEPT !.blacklist = IF dbl THEN {"c"} ELSE {}],
          Override(kind),
          {"a", "b", "c"})

(* The call structures on which the override of `kind` bears: the routine *)
(* it names has a call to cut, and the other calls vary.                   *)
GenWorlds ==
    { GenWorld(ab, TRUE, bc, FALSE, "none") : ab \in BOOLEAN, bc \in BOOLEAN }
    \cup
    { GenWorld(TRUE, TRUE, bc, FALSE, kind) :
        bc \in BOOLEAN, kind \in {"a_noexpand", "a_black_c", "a_ignore_c"} }
    \cup
    { GenWorld(TRUE, ac, TRUE, FALSE, kind) :
        ac \in BOOLEAN, kind \in {"b_noexpand", "b_black_c", "a_ignore_b"} }
    \cup
    { GenWorld(TRUE, ac, bc, TRUE, "none") : ac \in BOOLEAN, bc \in BOOLEAN }
    \cup
    { GenWorld(TRUE, ac, TRUE, TRUE, "b_white_c") : ac \in BOOLEAN }

(* projA of the tests (src/tests/test_scheduler.py:52-91):                 *)
(*   driverA -> kernela -> compute_l1 -> compute_l2                        *)
(*                      -> another_l1 -> another_l2                        *)
ProjAFiles ==
    << File("driverA_mod", << Sub("driverA", << "kernela" >>, {}) >>, TRUE, TRUE),
       File("kernelA_mod",
            << Sub("kernela", << "compute_l1", "another_l1" >>, {}) >>, TRUE, TRUE),
       File("compute_l1_mod", << Sub("compute_l1", << "compute_l2" >>, {}) >>, TRUE, TRUE),
       File("compute_l2_mod", << Sub("compute_l2", << >>, {}) >>, TRUE, TRUE),
       One("another_l1", << "another_l2" >>),
       One("another_l2", << >>) >>

ProjANames == {"driverA", "compute_l1", "another_l1"}

(* test_scheduler_taskgraph_simple *)
ProjASimple == World(ProjAFiles, TestDefault, NoRoutines, ProjANames)

(* test_scheduler_taskgraph_blocked (src/tests/test_scheduler.py:139-180) *)
ProjABlocked ==
    World(ProjAFiles, [TestDefault EXCEPT !.blacklist = {"another_l1"}],
          NoRoutines, ProjANames)

(* test_scheduler_process (src/tests/test_scheduler.py:220-276): the       *)
(* default record has a whitelist, the two overrides make their routines   *)
(* drivers; each override record carries its own 'name' key.               *)
ProcessDefault ==
    [mode |-> "idem", role |-> "kernel", expand |-> TRUE, strict |-> TRUE,
     blacklist |-> {}, whitelist |-> {}]

ProjAProcess ==
    World(ProjAFiles, ProcessDefault,
          [n \in {"compute_l1", "another_l1"} |->
              [name |-> n, role |-> "driver", expand |-> TRUE]],
          {"compute_l1", "another_l1"})

(* Trees with the failures find_path and Task.__init__ meet.  "ghost" is  *)
(* defined nowhere and "bad" does not parse under the strict default.      *)
ErrWorld ==
    World(<< One("top", << "dr_hook", "leaf", "ghost", "mid" >>),
             One("mid", << "leaf", "bad", "top" >>),
             File("bad", << Sub("bad", << "leaf" >>, {}) >>, TRUE, FALSE),
             One("leaf", << >>) >>,
          TestDefault, NoRoutines,
          {"top", "mid", "bad", "ghost"})

(* "lax" does not parse and is not strict; the file of "gone" has          *)
(* disappeared since the scan.                                             *)
LaxWorld ==
    World(<< One("up", << "leaf", "lax", "gone" >>),
             File("lax", << Sub("lax", << "leaf" >>, {}) >>, TRUE, FALSE),
             File("gone", << Sub("gone", << >>, {}) >>, FALSE, TRUE),
             One("leaf", << >>) >>,
          TestDefault,
          ("lax" :> [strict |-> FALSE]),
          {"up", "lax", "gone"})

(* Calls of the dead list: "flush" has a file and is also in the ignore    *)
(* list of its caller, "dr_hook" has none and is also in the blacklist of  *)
(* its caller, "abor1" is called by a Task that does not expand.           *)
DeadWorld ==
    World(<< One("w", << "dr_hook", "flush", "x" >>),
             One("x", << "abor1", "w" >>),
             One("flush", << "w" >>) >>,
          TestDefault,
          ("w" :> [blacklist |-> {"dr_hook"}, ignore |-> {"flush"}])
             @@ ("x" :> [expand |-> FALSE]),
          {"w", "flush"})

(* One file with two subroutines: y, which calls x, and after it x, which  *)
(* calls nothing.                                                          *)
MultiWorld ==
    World(<< File("multi", << Sub("y", << "x" >>, {}), Sub("x", << >>, {}) >>,
                  TRUE, TRUE) >>,
          TestDefault, NoRoutines, {"x", "y"})

(* Two files with different stems define the subroutine d; the first one  *)
(* scanned has a call in it.                                               *)
DupWorld ==
    World(<< File("p1", << Sub("d", << "e" >>, {}) >>, TRUE, TRUE),
             File("p2", << Sub("d", << >>, {}) >>, TRUE, TRUE),
             One("e", << >>) >>,
          TestDefault, NoRoutines, {"d"})

(* Two files whose stems differ in letter case only, a.F90 and A.F90 of    *)
(* two directories: both define the subroutine a, the second one also b.   *)
StemWorld ==
    World(<< File("a", << Sub("a", << >>, {}) >>, TRUE, TRUE),
             File("A", << Sub("a", << "c" >>, {}), Sub("b", << >>, {}) >>, TRUE, TRUE),
             One("c", << >>) >>,
          TestDefault, NoRoutines, {"a", "b"})

(* A file that defines the module m_mod with the subroutine m in it, as    *)
(* the files of projA do.                                                  *)
ModWorld ==
    World(<< WithModules(File("m_mod", << Sub("m", << >>, {}) >>, TRUE, TRUE),
                         {"m_mod"}) >>,
          TestDefault, NoRoutines, {"m", "m_mod"})

(* Two files define the same Fortran routine in different letter case;    *)
(* the driver calls it in both spellings.                                  *)
CaseWorld ==
    World(<< One("drv", << "a", "A" >>),
             File("a_mod", << Sub("a", << >>, {}) >>, TRUE, TRUE),
             File("a_up", << Sub("A", << >>, {}) >>, TRUE, TRUE) >>,
          TestDefault, NoRoutines, {"drv", "a", "A"})

(* test_scheduler_multiple_projects_enrich                                 *)
(* (src/tests/test_scheduler.py:332-342):                                  *)
(*   projA: driverB -> kernelb -> <ext_driver>                             *)
(*   projB:            ext_driver -> ext_kernel                            *)
(* kernelb has ext_driver in its ignore list and in its `enrich` list.     *)
EnrichWorld ==
    World(<< One("driverB", << "kernelb" >>),
             One("kernelb", << "ext_driver" >>),
             One("ext_driver", << "ext_kernel" >>),
             One("ext_kernel", << >>) >>,
          TestDefault,
          ("kernelb" :> [ignore |-> {"ext_driver"}, enrich |-> << "ext_driver" >>]),
          {"driverB", "ext_driver"})

(* An `enrich` list with a name that no scanned file defines. *)
EnrichBadWorld ==
    World(<< One("g", << >>), One("leaf", << >>) >>,
          TestDefault,
          ("g" :> [enrich |-> << "leaf", "nowhere" >>]),
          {"g"})

(* Names that differ in letter case from the entries of the lists they are *)
(* tested against: the config spells its blacklist and ignore entries in   *)
(* capitals, the routine spells its call to dr_hook in capitals, as the    *)
(* file that defines DR_HOOK does.                                         *)
CaseListWorld ==
    World(<< One("u", << "c", "b", "DR_HOOK" >>),
             One("b", << >>),
             One("c", << >>),
             File("dr_hook", << Sub("DR_HOOK", << >>, {}) >>, TRUE, TRUE) >>,
          TestDefault,
          ("u" :> [blacklist |-> {"C"}, ignore |-> {"B"}]),
          {"u"})

(* A routine with the member subroutines a and C: it calls both, a also in *)
(* capitals, and the routines b and c2 of other files; a is also defined   *)
(* in a file of its own.                                                   *)
MemberWorld ==
    World(<< File("h", << Sub("h", << "a", "A", "b", "c", "c2" >>, {"a", "C"}) >>,
                  TRUE, TRUE),
             One("a", << >>),
             One("b", << >>),
             One("c2", << >>) >>,
          TestDefault, NoRoutines, {"h"})

(* Recursion: p and q call each other and q calls itself. *)
CycWorld ==
    World(<< One("p", << "q" >>), One("q", << "p", "q" >>), One("r", << "p" >>) >>,
          TestDefault, NoRoutines, {"p", "q", "r"})

(* Transformations that raise: on a callee that has a sibling, on a       *)
(* routine in the middle of a chain, on the first routine visited.         *)
RaiseWorlds ==
    { Raising(ProjASimple, {"another_l1"}),
      Raising(GenWorld(TRUE, FALSE, TRUE, FALSE, "none"), {"b"}),
      Raising(GenWorld(TRUE, TRUE, FALSE, FALSE, "none"), {"a", "c"}) }

(* Schedulers built with graphviz installed: under the config of           *)
(* test_scheduler_process, and under the configs without a whitelist.      *)
GraphWorlds ==
    { WithGraph(ProjAProcess),
      WithGraph(ProjASimple),
      WithGraph(GenWorld(TRUE, TRUE, TRUE, FALSE, "none")) }

Worlds ==
    GenWorlds \cup RaiseWorlds \cup GraphWorlds
    \cup {ProjASimple, ProjABlocked, ProjAProcess, ErrWorld, LaxWorld, DeadWorld,
          MultiWorld, DupWorld, StemWorld, ModWorld, CaseWorld, CycWorld,
          EnrichWorld, EnrichBadWorld, CaseListWorld, MemberWorld}

(***************************************************************************)
(* The source index (Scheduler.__init__).                                  *)
(***************************************************************************)
(* Obj.__new__ caches instances on the lower-cased stem: the Obj of file i *)
(* is the Obj of the first scanned file with that stem, which keeps that   *)
(* file's source_path and subroutines.                                     *)
ObjIndex(files, i) ==
    Min({ j \in 1..i : Lower(files[j].stem) = Lower(files[i].stem) })

(* Obj.subroutines: the names the regex scan finds in the Obj's source. *)
ObjSubroutines(files, i) ==
    { files[ObjIndex(files, i)].subs[k].name :
        k \in 1..Len(files[ObjIndex(files, i)].subs) }

(* BuildObjMap, with the first pair of a key kept. *)
BuildObjMap_FirstWins(files) ==
    LET keys == UNION { ObjSubroutines(files, i) : i \in 1..Len(files) }
    IN  [r \in keys |->
            ObjIndex(files, Min({ i \in 1..Len(files) : r \in ObjSubroutines(files, i) }))]

(* OrderedDict((r, obj) for obj in obj_list for r in obj.subroutines):    *)
(* a later pair replaces an earlier one with the same key.                 *)
BuildObjMap(files) ==
    LET keys == UNION { ObjSubroutines(files, i) : i \in 1..Len(files) }
    IN  [r \in keys |->
            ObjIndex(files, Max({ i \in 1..Len(files) : r \in ObjSubroutines(files, i) }))]

(***************************************************************************)
(* The instance cache of Obj, which outlives a Scheduler.                  *)
(***************************************************************************)
(* Source trees that Schedulers of one process are built over, each the    *)
(* sequence of its files in scan order.  TreeA and TreeB both have a file  *)
(* of stem c, the stems a and A differ in letter case only, TreeE has a    *)
(* file a with another routine in it.                                      *)
TreeA == << One("a", << >>), One("c", << >>) >>

TreeB == << File("A", << Sub("a", << "c" >>, {}), Sub("b", << >>, {}) >>, TRUE, TRUE),
            One("c", << "b" >>) >>

TreeC == << One("b", << >>) >>

TreeD == << One("p", << "q" >>), One("q", << >>) >>

TreeE == << File("a", << Sub("x", << >>, {}) >>, TRUE, TRUE) >>

Trees == << TreeA, TreeB, TreeC, TreeD, TreeE >>

(* A file of a tree; tree 0 is the tree of the world. *)
FileId(t, i) == [tree |-> t, file |-> i]

SourceOf(w, id) == IF id.tree = 0 THEN w.files[id.file] ELSE Trees[id.tree][id.file]

(* Obj(source_path=f) for every file of the tree t in turn: a stem that    *)
(* is in the cache keeps the instance it has, a new stem gets an instance  *)
(* whose source_path is the first file of the tree with that stem.         *)
CacheAfter(cache, t, files) ==
    LET stems == { Lower(files[i].stem) : i \in 1..Len(files) }
    IN  [st \in DOMAIN cache \cup stems |->
            IF st \in DOMAIN cache
            THEN cache[st]
            ELSE FileId(t, Min({ i \in 1..Len(files) : Lower(files[i].stem) = st }))]

(* obj.subroutines of the instance that Obj(source_path=files[i]) returns. *)
CachedSubroutines(w, cache, files, i) ==
    LET f == SourceOf(w, cache[Lower(files[i].stem)])
    IN  { f.subs[k].name : k \in 1..Len(f.subs) }

(* The obj_map of a Scheduler built over the tree t with the instance      *)
(* cache as the Schedulers before it have left it: routine -> file.        *)
CachedObjMap(w, cache, t, files) ==
    LET after == CacheAfter(cache, t, files)
        keys == UNION { CachedSubroutines(w, after, files, i) : i \in 1..Len(files) }
    IN  [r \in keys |->
            after[Lower(files[Max({ i \in 1..Len(files) :
                                      r \in CachedSubroutines(w, after, files, i) })].stem)]]

(***************************************************************************)
(* Task                                                                    *)
(***************************************************************************)
(* dict.copy() then dict.update(): the override's keys replace the         *)
(* default's, the other keys of the default stay.                          *)
Update(d, o) ==
    [k \in (DOMAIN d) \cup (DOMAIN o) |-> IF k \in DOMAIN o THEN o[k] ELSE d[k]]

(* MergeConfig, without the update by the override record. *)
MergeConfig_DefaultOnly(w, name) == w.default

MergeConfig(w, name) ==
    IF name \in DOMAIN w.routines
    THEN Update(w.default, w.routines[name])
    ELSE w.default

(* TaskOutcome, with a parse failure logged whatever `strict` says. *)
TaskOutcome_NeverStrict(w, name, path) ==
    LET f == w.files[path]
    IN  IF f.exists
        THEN IF f.parses /\ Len(f.subs) > 0 THEN "parsed" ELSE "failed"
        ELSE "missing"

(* What Task.__init__ does with the file at `path`: "parsed" sets routine  *)
(* to all_subroutines[0]; "raise" re-raises the parse failure (strict);    *)
(* "failed" and "missing" leave routine None.                              *)
TaskOutcome(w, name, path) ==
    LET f == w.files[path]
    IN  IF f.exists
        THEN IF f.parses /\ Len(f.subs) > 0
             THEN "parsed"
             ELSE IF MergeConfig(w, name).strict THEN "raise" ELSE "failed"
        ELSE "missing"

(* The Task object: routine is the index of the file whose first           *)
(* subroutine it holds, 0 for None.                                        *)
NewTask(w, name, path) ==
    [name |-> name,
     path |-> path,
     config |-> MergeConfig(w, name),
     routine |-> IF TaskOutcome(w, name, path) = "parsed" THEN path ELSE 0]

(* Children, with the member names compared as they are spelled. *)
Children_ExactMembers(w, task) ==
    LET r == w.files[task.routine].subs[1]
    IN  SelectSeq(r.calls, LAMBDA c : c \notin r.members)

(* Task.children of a Task whose routine is not None. *)
Children(w, task) ==
    LET r == w.files[task.routine].subs[1]
        members == { Lower(m) : m \in r.members }
    IN  SelectSeq(r.calls, LAMBDA c : Lower(c) \notin members)

(***************************************************************************)
(* Scheduler                                                               *)
(***************************************************************************)
DeadList == {"dr_hook", "abor1", "abort_surf", "flush"}

(* dict.get(key, default) *)
Get(cfg, key, default) == IF key \in DOMAIN cfg THEN cfg[key] ELSE default

(* How a call ended.  hit: an append met a name it had already cached. *)
Ended(op, err) == [op |-> op, ok |-> (err = "none"), err |-> err, hit |-> FALSE]

Init ==
    /\ world \in Worlds
    /\ obj_map = BuildObjMap(world.files)
    /\ item_map = << >>
    /\ queue = << >>
    /\ nodes = << >>
    /\ edges = {}
    /\ processed = << >>
    /\ pc = "idle"
    /\ item = "none"
    /\ todo = << >>
    /\ enrichTodo = << >>
    /\ enriched = {}
    /\ visited = << >>
    /\ last = Ended("init", "none")
    /\ roots = {}
    /\ aborted = FALSE
    /\ ncalls = 0
    /\ passed = << >>
    /\ obj_cache = CacheAfter(<< >>, 0, world.files)
    /\ schedulers = << >>
    /\ invoked = << >>

(* The part of the Scheduler that append changes, with the error raised. *)
Sched(im, q, ns, err) == [item_map |-> im, queue |-> q, nodes |-> ns, err |-> err]

(* AppendOne, without the look into the cache. *)
AppendOne_NoCacheCheck(w, om, st, source) ==
    IF st.err # "none" THEN st
    ELSE IF source \notin DOMAIN om THEN [st EXCEPT !.err = "RuntimeError"]
    ELSE IF TaskOutcome(w, source, om[source]) = "raise"
         THEN [st EXCEPT !.err = "ParseError"]
         ELSE Sched(st.item_map @@ (source :> NewTask(w, source, om[source])),
                    Append(st.queue, source),
                    Append(st.nodes, source),
                    "none")

(* AppendOne, with a name the index lacks skipped in silence. *)
AppendOne_SoftSkip(w, om, st, source) ==
    IF st.err # "none" THEN st
    ELSE IF source \in DOMAIN st.item_map THEN st
    ELSE IF source \notin DOMAIN om THEN st
    ELSE IF TaskOutcome(w, source, om[source]) = "raise"
         THEN [st EXCEPT !.err = "ParseError"]
         ELSE Sched(st.item_map @@ (source :> NewTask(w, source, om[source])),
                    Append(st.queue, source),
                    Append(st.nodes, source),
                    "none")

(* AppendOne, without self.taskgraph.add_node(item). *)
AppendOne_NoNode(w, om, st, source) ==
    IF st.err # "none" THEN st
    ELSE IF source \in DOMAIN st.item_map THEN st
    ELSE IF source \notin DOMAIN om THEN [st EXCEPT !.err = "RuntimeError"]
    ELSE IF TaskOutcome(w, source, om[source]) = "raise"
         THEN [st EXCEPT !.err = "ParseError"]
         ELSE Sched(st.item_map @@ (source :> NewTask(w, source, om[source])),
                    Append(st.queue, source),
                    st.nodes,
                    "none")

(* One turn of the loop of Scheduler.append: a cached name is skipped;     *)
(* find_path raises RuntimeError for a name the index lacks; Task() may    *)
(* re-raise a parse failure; otherwise the Task is queued, cached and      *)
(* added as a node.  Nothing is done once an error is under way.           *)
AppendOne(w, om, st, source) ==
    IF st.err # "none" THEN st
    ELSE IF source \in DOMAIN st.item_map THEN st
    ELSE IF source \notin DOMAIN om THEN [st EXCEPT !.err = "RuntimeError"]
    ELSE IF TaskOutcome(w, source, om[source]) = "raise"
         THEN [st EXCEPT !.err = "ParseError"]
         ELSE Sched(st.item_map @@ (source :> NewTask(w, source, om[source])),
                    Append(st.queue, source),
                    Append(st.nodes, source),
                    "none")

RECURSIVE AppendAll(_, _, _, _)
AppendAll(w, om, st, sources) ==
    IF sources = << >> THEN st
    ELSE AppendAll(w, om, AppendOne(w, om, st, Head(sources)), Tail(sources))

(* scheduler.append(sources), called from outside. *)
AppendCall(sources) ==
    /\ pc = "idle"
    /\ ncalls < MaxCalls
    /\ LET r == AppendAll(world, obj_map, Sched(item_map, queue, nodes, "none"), sources)
       IN  /\ item_map' = r.item_map
           /\ queue' = r.queue
           /\ nodes' = r.nodes
           /\ last' = [Ended("append", r.err) EXCEPT
                         !.hit = \E i \in 1..Len(sources) :
                                    \/ sources[i] \in DOMAIN item_map
                                    \/ \E j \in 1..(i - 1) : sources[j] = sources[i]]
           /\ roots' = roots \cup (DOMAIN r.item_map \ DOMAIN item_map)
    /\ ncalls' = ncalls + 1
    /\ UNCHANGED << world, obj_map, edges, processed, pc, item, todo, enrichTodo,
                    enriched, visited, aborted, passed,
                    obj_cache, schedulers, invoked >>

(* ---- populate: draining the queue ---- *)
PopulateCall ==
    /\ pc = "idle"
    /\ ncalls < MaxCalls
    /\ pc' = "drain"
    /\ ncalls' = ncalls + 1
    /\ UNCHANGED << world, obj_map, item_map, queue, nodes, edges, processed, item,
                    todo, enrichTodo, enriched, visited, last, roots, aborted,
                    passed,
                    obj_cache, schedulers, invoked >>

(* PopulatePop, with the newest Task of the queue taken (self.queue.pop()). *)
PopulatePop_Lifo ==
    /\ pc = "drain"
    /\ queue # << >>
    /\ item_map[queue[Len(queue)]].routine # 0
    /\ item' = queue[Len(queue)]
    /\ queue' = SubSeq(queue, 1, Len(queue) - 1)
    /\ todo' = Children(world, item_map[queue[Len(queue)]])
    /\ pc' = IF todo' = << >> THEN "drain" ELSE "children"
    /\ UNCHANGED << world, obj_map, item_map, nodes, edges, processed, enrichTodo,
                    enriched, visited, last, roots, aborted, ncalls, passed,
                    obj_cache, schedulers, invoked >>

(* item = self.queue.popleft(); item.children of a parsed Task *)
PopulatePop ==
    /\ pc = "drain"
    /\ queue # << >>
    /\ item_map[Head(queue)].routine # 0
    /\ item' = Head(queue)
    /\ queue' = Tail(queue)
    /\ todo' = Children(world, item_map[Head(queue)])
    /\ pc' = IF todo' = << >> THEN "drain" ELSE "children"
    /\ UNCHANGED << world, obj_map, item_map, nodes, edges, processed, enrichTodo,
                    enriched, visited, last, roots, aborted, ncalls, passed,
                    obj_cache, schedulers, invoked >>

(* item.children of a Task whose routine is None: self.routine.members     *)
(* raises AttributeError, which populate does not catch.                   *)
PopulatePopNoRoutine ==
    /\ pc = "drain"
    /\ queue # << >>
    /\ item_map[Head(queue)].routine = 0
    /\ item' = "none"
    /\ queue' = Tail(queue)
    /\ pc' = "idle"
    /\ last' = Ended("populate", "AttributeError")
    /\ aborted' = TRUE
    /\ UNCHANGED << world, obj_map, item_map, nodes, edges, processed, todo,
                    enrichTodo, enriched, visited, roots, ncalls, passed,
                    obj_cache, schedulers, invoked >>

(* ChildVerdict, without the look into the dead list. *)
ChildVerdict_NoDeadList(cfg, child) ==
    IF child \in cfg.blacklist THEN "blacklisted"
    ELSE IF ~cfg.expand THEN "noexpand"
    ELSE IF child \in Get(cfg, "ignore", {}) THEN "ignored"
    ELSE "append"

(* ChildVerdict, with the ignore list never consulted. *)
ChildVerdict_NoIgnore(cfg, child) ==
    IF child \in DeadList THEN "dead"
    ELSE IF child \in cfg.blacklist THEN "blacklisted"
    ELSE IF ~cfg.expand THEN "noexpand"
    ELSE "append"

(* ChildVerdict, with the Scheduler's own (empty) blacklist consulted in   *)
(* place of the Task's.                                                    *)
ChildVerdict_SchedulerBlacklist(cfg, child) ==
    IF child \in DeadList THEN "dead"
    ELSE IF child \in {} THEN "blacklisted"
    ELSE IF ~cfg.expand THEN "noexpand"
    ELSE IF child \in Get(cfg, "ignore", {}) THEN "ignored"
    ELSE "append"

(* ChildVerdict, with the expand option never consulted. *)
ChildVerdict_AlwaysExpand(cfg, child) ==
    IF child \in DeadList THEN "dead"
    ELSE IF child \in cfg.blacklist THEN "blacklisted"
    ELSE IF child \in Get(cfg, "ignore", {}) THEN "ignored"
    ELSE "append"

(* ChildVerdict, with a Task whose role is "driver" never expanded. *)
ChildVerdict_RoleSensitive(cfg, child) ==
    IF child \in DeadList THEN "dead"
    ELSE IF child \in cfg.blacklist THEN "blacklisted"
    ELSE IF ~cfg.expand \/ cfg.role = "driver" THEN "noexpand"
    ELSE IF child \in Get(cfg, "ignore", {}) THEN "ignored"
    ELSE "append"

(* What the body of `for child in item.children` decides for one child. *)
ChildVerdict(cfg, child) ==
    IF child \in DeadList THEN "dead"
    ELSE IF child \in cfg.blacklist THEN "blacklisted"
    ELSE IF ~cfg.expand THEN "noexpand"
    ELSE IF child \in Get(cfg, "ignore", {}) THEN "ignored"
    ELSE "append"

NextChildPc == IF Tail(todo) = << >> THEN "drain" ELSE "children"

(* `continue`, or falling through an `if item.config['expand']` that is    *)
(* false: the child leaves no trace in the task graph.                     *)
ChildSkip(verdict) ==
    /\ pc = "children"
    /\ ChildVerdict(item_map[item].config, Head(todo)) = verdict
    /\ todo' = Tail(todo)
    /\ pc' = NextChildPc
    /\ UNCHANGED << world, obj_map, item_map, queue, nodes, edges, processed, item,
                    enrichTodo, enriched, visited, last, roots, aborted, ncalls,
                    passed,
                    obj_cache, schedulers, invoked >>

ChildDead == ChildSkip("dead")

ChildBlacklisted == ChildSkip("blacklisted")

ChildNoExpand == ChildSkip("noexpand")

ChildIgnored == ChildSkip("ignored")

(* ChildAppend, with a child that has a Task already put into the work    *)
(* queue once more.                                                        *)
ChildAppend_EnqueuesAgain ==
    /\ pc = "children"
    /\ ChildVerdict(item_map[item].config, Head(todo)) = "append"
    /\ LET r == AppendOne(world, obj_map, Sched(item_map, queue, nodes, "none"), Head(todo))
       IN  /\ r.err = "none"
           /\ item_map' = r.item_map
           /\ queue' = IF Head(todo) \in DOMAIN item_map
                       THEN Append(queue, Head(todo))
                       ELSE r.queue
           /\ nodes' = r.nodes
    /\ edges' = edges \cup { << item, Head(todo) >> }
    /\ todo' = Tail(todo)
    /\ pc' = NextChildPc
    /\ UNCHANGED << world, obj_map, processed, item, enrichTodo, enriched, visited,
                    last, roots, aborted, ncalls, passed,
                    obj_cache, schedulers, invoked >>

(* self.append(child); self.taskgraph.add_edge(item, self.item_map[child]) *)
ChildAppend ==
    /\ pc = "children"
    /\ ChildVerdict(item_map[item].config, Head(todo)) = "append"
    /\ LET r == AppendOne(world, obj_map, Sched(item_map, queue, nodes, "none"), Head(todo))
       IN  /\ r.err = "none"
           /\ item_map' = r.item_map
           /\ queue' = r.queue
           /\ nodes' = r.nodes
    /\ edges' = edges \cup { << item, Head(todo) >> }
    /\ todo' = Tail(todo)
    /\ pc' = NextChildPc
    /\ UNCHANGED << world, obj_map, processed, item, enrichTodo, enriched, visited,
                    last, roots, aborted, ncalls, passed,
                    obj_cache, schedulers, invoked >>

(* ChildAppendRaise, with the Task under expansion taken out of the cache  *)
(* and the task graph again.                                               *)
ChildAppendRaise_Rollback ==
    /\ pc = "children"
    /\ ChildVerdict(item_map[item].config, Head(todo)) = "append"
    /\ LET r == AppendOne(world, obj_map, Sched(item_map, queue, nodes, "none"), Head(todo))
       IN  /\ r.err # "none"
           /\ last' = Ended("populate", r.err)
    /\ item_map' = [n \in DOMAIN item_map \ {item} |-> item_map[n]]
    /\ nodes' = SelectSeq(nodes, LAMBDA n : n # item)
    /\ edges' = { e \in edges : e[1] # item /\ e[2] # item }
    /\ pc' = "idle"
    /\ item' = "none"
    /\ todo' = << >>
    /\ aborted' = TRUE
    /\ UNCHANGED << world, obj_map, queue, processed, enrichTodo, enriched, visited,
                    roots, ncalls, passed,
                    obj_cache, schedulers, invoked >>

(* ChildAppendRaise, with the Task under expansion put back at the head of *)
(* the work queue.                                                         *)
ChildAppendRaise_Requeue ==
    /\ pc = "children"
    /\ ChildVerdict(item_map[item].config, Head(todo)) = "append"
    /\ LET r == AppendOne(world, obj_map, Sched(item_map, queue, nodes, "none"), Head(todo))
       IN  /\ r.err # "none"
           /\ last' = Ended("populate", r.err)
    /\ queue' = << item >> \o queue
    /\ pc' = "idle"
    /\ item' = "none"
    /\ todo' = << >>
    /\ aborted' = TRUE
    /\ UNCHANGED << world, obj_map, item_map, nodes, edges, processed,
                    enrichTodo, enriched, visited, roots, ncalls, passed,
                    obj_cache, schedulers, invoked >>

(* self.append(child) raises: populate is left with the error. *)
ChildAppendRaise ==
    /\ pc = "children"
    /\ ChildVerdict(item_map[item].config, Head(todo)) = "append"
    /\ LET r == AppendOne(world, obj_map, Sched(item_map, queue, nodes, "none"), Head(todo))
       IN  /\ r.err # "none"
           /\ last' = Ended("populate", r.err)
    /\ pc' = "idle"
    /\ item' = "none"
    /\ todo' = << >>
    /\ aborted' = TRUE
    /\ UNCHANGED << world, obj_map, item_map, queue, nodes, edges, processed,
                    enrichTodo, enriched, visited, roots, ncalls, passed,
                    obj_cache, schedulers, invoked >>

(* ---- populate: the enrichment pass ---- *)
(* What the body of `for item in self.taskgraph` does for one Task:        *)
(* item.enrich() needs a routine; every name of config['enrich'] is        *)
(* resolved with find_path and parsed with SourceFile.from_file, and no    *)
(* error of either is caught.                                              *)
EnrichOutcome(w, om, task) ==
    IF task.routine = 0 THEN "AttributeError"
    ELSE LET extra == Get(task.config, "enrich", << >>)
             fails(i) == \/ extra[i] \notin DOMAIN om
                         \/ ~w.files[om[extra[i]]].exists
                         \/ ~w.files[om[extra[i]]].parses
             bad == { i \in 1..Len(extra) : fails(i) }
         IN  IF bad = {} THEN "none"
             ELSE IF extra[Min(bad)] \notin DOMAIN om THEN "RuntimeError"
             ELSE "ParseError"

(* The queue is empty: the loop over the nodes of the task graph starts. *)
EnrichStart ==
    /\ pc = "drain"
    /\ queue = << >>
    /\ nodes # << >>
    /\ enrichTodo' = nodes
    /\ pc' = "enrich"
    /\ item' = "none"
    /\ UNCHANGED << world, obj_map, item_map, queue, nodes, edges, processed,
                    todo, enriched, visited, last, roots, aborted, ncalls,
                    passed,
                    obj_cache, schedulers, invoked >>

(* populate() of a Scheduler without Tasks returns at once. *)
PopulateReturnEmpty ==
    /\ pc = "drain"
    /\ queue = << >>
    /\ nodes = << >>
    /\ pc' = "idle"
    /\ item' = "none"
    /\ last' = Ended("populate", "none")
    /\ UNCHANGED << world, obj_map, item_map, queue, nodes, edges, processed,
                    todo, enrichTodo, enriched, visited, roots, aborted, ncalls,
                    passed,
                    obj_cache, schedulers, invoked >>

(* The `routines` property: the routine of every node of the task graph,  *)
(* in node order, a Task without one giving None (0).                      *)
Routines(im, ns) == [i \in 1..Len(ns) |-> im[ns[i]].routine]

(* EnrichStep, with the routines of the Tasks enriched so far passed on. *)
EnrichStep_RoutinesSoFar ==
    /\ pc = "enrich"
    /\ EnrichOutcome(world, obj_map, item_map[Head(enrichTodo)]) = "none"
    /\ enriched' = enriched \cup { Head(enrichTodo) }
    /\ passed' = (Head(enrichTodo) :>
                    Routines(item_map, SubSeq(nodes, 1, Len(nodes) - Len(enrichTodo))))
                 @@ passed
    /\ enrichTodo' = Tail(enrichTodo)
    /\ IF Tail(enrichTodo) = << >>
       THEN pc' = "idle" /\ last' = Ended("populate", "none")
       ELSE pc' = "enrich" /\ last' = last
    /\ UNCHANGED << world, obj_map, item_map, queue, nodes, edges, processed, item,
                    todo, visited, roots, aborted, ncalls,
                    obj_cache, schedulers, invoked >>

(* EnrichStep, with the names of item.config['enrich'] appended to the     *)
(* Scheduler like the names of children.                                   *)
EnrichStep_AppendsExtras ==
    /\ pc = "enrich"
    /\ EnrichOutcome(world, obj_map, item_map[Head(enrichTodo)]) = "none"
    /\ enriched' = enriched \cup { Head(enrichTodo) }
    /\ passed' = (Head(enrichTodo) :> Routines(item_map, nodes)) @@ passed
    /\ LET r == AppendAll(world, obj_map, Sched(item_map, queue, nodes, "none"),
                          Get(item_map[Head(enrichTodo)].config, "enrich", << >>))
       IN  /\ item_map' = r.item_map
           /\ queue' = r.queue
           /\ nodes' = r.nodes
    /\ enrichTodo' = Tail(enrichTodo)
    /\ IF Tail(enrichTodo) = << >>
       THEN pc' = "idle" /\ last' = Ended("populate", "none")
       ELSE pc' = "enrich" /\ last' = last
    /\ UNCHANGED << world, obj_map, edges, processed, item,
                    todo, visited, roots, aborted, ncalls,
                    obj_cache, schedulers, invoked >>

(* item.enrich(routines=self.routines) and the loading of the names of     *)
(* item.config['enrich'] return.                                           *)
EnrichStep ==
    /\ pc = "enrich"
    /\ EnrichOutcome(world, obj_map, item_map[Head(enrichTodo)]) = "none"
    /\ enriched' = enriched \cup { Head(enrichTodo) }
    /\ passed' = (Head(enrichTodo) :> Routines(item_map, nodes)) @@ passed
    /\ enrichTodo' = Tail(enrichTodo)
    /\ IF Tail(enrichTodo) = << >>
       THEN pc' = "idle" /\ last' = Ended("populate", "none")
       ELSE pc' = "enrich" /\ last' = last
    /\ UNCHANGED << world, obj_map, item_map, queue, nodes, edges, processed, item,
                    todo, visited, roots, aborted, ncalls,
                    obj_cache, schedulers, invoked >>

(* item.enrich raises for want of a routine, or it returns and the        *)
(* loading of a name of item.config['enrich'] raises.                      *)
EnrichRaise ==
    /\ pc = "enrich"
    /\ EnrichOutcome(world, obj_map, item_map[Head(enrichTodo)]) # "none"
    /\ enriched' = IF item_map[Head(enrichTodo)].routine = 0
                   THEN enriched
                   ELSE enriched \cup { Head(enrichTodo) }
    /\ passed' = IF item_map[Head(enrichTodo)].routine = 0
                 THEN passed
                 ELSE (Head(enrichTodo) :> Routines(item_map, nodes)) @@ passed
    /\ pc' = "idle"
    /\ enrichTodo' = << >>
    /\ last' = Ended("populate", EnrichOutcome(world, obj_map, item_map[Head(enrichTodo)]))
    /\ UNCHANGED << world, obj_map, item_map, queue, nodes, edges, processed, item,
                    todo, visited, roots, aborted, ncalls,
                    obj_cache, schedulers, invoked >>

(* ---- process ---- *)
(* Ready, for a traversal of the reversed graph: a node is yielded only   *)
(* after every node it has an edge to.                                     *)
Ready_CalleesFirst(ns, es, vis) ==
    { n \in SeqToSet(ns) \ SeqToSet(vis) :
        \A e \in es : e[1] = n => e[2] \in SeqToSet(vis) }

(* Ready, for a traversal in no particular order. *)
Ready_AnyOrder(ns, es, vis) == SeqToSet(ns) \ SeqToSet(vis)

(* Ready, for a traversal that breaks a cycle: when no node is free of     *)
(* unvisited callers, any node left is yielded.                            *)
Ready_BreaksCycles(ns, es, vis) ==
    LET free == { n \in SeqToSet(ns) \ SeqToSet(vis) :
                    \A e \in es : e[2] = n => e[1] \in SeqToSet(vis) }
    IN  IF free = {} THEN SeqToSet(ns) \ SeqToSet(vis) ELSE free

(* nx.topological_sort(self.taskgraph) yields a node only after every node *)
(* with an edge into it: the nodes it may yield next.                      *)
Ready(ns, es, vis) ==
    { n \in SeqToSet(ns) \ SeqToSet(vis) :
        \A e \in es : e[2] = n => e[1] \in SeqToSet(vis) }

ProcessCall ==
    /\ pc = "idle"
    /\ ncalls < MaxCalls
    /\ pc' = "process"
    /\ ncalls' = ncalls + 1
    /\ UNCHANGED << world, obj_map, item_map, queue, nodes, edges, processed, item,
                    todo, enrichTodo, enriched, visited, last, roots, aborted,
                    passed,
                    obj_cache, schedulers, invoked >>

(* `if self.graph: if task.name in task.config['whitelist']` raises        *)
(* KeyError: there is a rendering graph and the Task's config has no       *)
(* 'whitelist' key.                                                        *)
MarkRaises(g, task) == g /\ "whitelist" \notin DOMAIN task.config

(* ProcessVisit, without self.processed.append(task). *)
ProcessVisit_NoMark(n) ==
    /\ pc = "process"
    /\ n \in Ready(nodes, edges, visited)
    /\ n \notin world.raises
    /\ ~MarkRaises(world.gviz, item_map[n])
    /\ visited' = Append(visited, n)
    /\ UNCHANGED << world, obj_map, item_map, queue, nodes, edges, processed, pc, item,
                    todo, enrichTodo, enriched, last, roots, aborted, ncalls,
                    passed,
                    obj_cache, schedulers, invoked >>

(* transformation.apply(task.routine, task=task, processor=self) returns;  *)
(* self.processed.append(task); the node of the Task is coloured when      *)
(* there is a rendering graph.                                             *)
ProcessVisit(n) ==
    /\ pc = "process"
    /\ n \in Ready(nodes, edges, visited)
    /\ n \notin world.raises
    /\ ~MarkRaises(world.gviz, item_map[n])
    /\ visited' = Append(visited, n)
    /\ processed' = Append(processed, n)
    /\ UNCHANGED << world, obj_map, item_map, queue, nodes, edges, pc, item, todo,
                    enrichTodo, enriched, last, roots, aborted, ncalls,
                    passed,
                    obj_cache, schedulers, invoked >>

(* apply returns and the Task is appended to `processed`; the look into   *)
(* task.config['whitelist'] then raises KeyError, which leaves process.    *)
ProcessMarkRaise(n) ==
    /\ pc = "process"
    /\ n \in Ready(nodes, edges, visited)
    /\ n \notin world.raises
    /\ MarkRaises(world.gviz, item_map[n])
    /\ processed' = Append(processed, n)
    /\ visited' = << >>
    /\ pc' = "idle"
    /\ last' = Ended("process", "KeyError")
    /\ UNCHANGED << world, obj_map, item_map, queue, nodes, edges, item, todo,
                    enrichTodo, enriched, roots, aborted, ncalls, passed,
                    obj_cache, schedulers, invoked >>

(* ProcessApplyRaise, with the error caught and the traversal going on. *)
ProcessApplyRaise_Caught(n) ==
    /\ pc = "process"
    /\ n \in Ready(nodes, edges, visited)
    /\ n \in world.raises
    /\ visited' = Append(visited, n)
    /\ UNCHANGED << world, obj_map, item_map, queue, nodes, edges, processed, pc, item,
                    todo, enrichTodo, enriched, last, roots, aborted, ncalls,
                    passed,
                    obj_cache, schedulers, invoked >>

(* transformation.apply raises: process does not catch it. *)
ProcessApplyRaise(n) ==
    /\ pc = "process"
    /\ n \in Ready(nodes, edges, visited)
    /\ n \in world.raises
    /\ visited' = << >>
    /\ pc' = "idle"
    /\ last' = Ended("process", "TransformationError")
    /\ UNCHANGED << world, obj_map, item_map, queue, nodes, edges, processed, item,
                    todo, enrichTodo, enriched, roots, aborted, ncalls,
                    passed,
                    obj_cache, schedulers, invoked >>

(* ProcessDone, with the Tasks still in the work queue left out of the     *)
(* traversal.                                                              *)
ProcessDone_QueuedLeft ==
    /\ pc = "process"
    /\ (SeqToSet(nodes) \ SeqToSet(queue)) \subseteq SeqToSet(visited)
    /\ pc' = "idle"
    /\ visited' = << >>
    /\ last' = Ended("process", "none")
    /\ UNCHANGED << world, obj_map, item_map, queue, nodes, edges, processed, item,
                    todo, enrichTodo, enriched, roots, aborted, ncalls,
                    passed,
                    obj_cache, schedulers, invoked >>

(* The generator is exhausted. *)
ProcessDone ==
    /\ pc = "process"
    /\ SeqToSet(nodes) \subseteq SeqToSet(visited)
    /\ pc' = "idle"
    /\ visited' = << >>
    /\ last' = Ended("process", "none")
    /\ UNCHANGED << world, obj_map, item_map, queue, nodes, edges, processed, item,
                    todo, enrichTodo, enriched, roots, aborted, ncalls,
                    passed,
                    obj_cache, schedulers, invoked >>

(* Nodes are left and none can be yielded: topological_sort raises         *)
(* NetworkXUnfeasible ("Graph contains a cycle").                          *)
ProcessCycle ==
    /\ pc = "process"
    /\ ~(SeqToSet(nodes) \subseteq SeqToSet(visited))
    /\ Ready(nodes, edges, visited) = {}
    /\ pc' = "idle"
    /\ visited' = << >>
    /\ last' = Ended("process", "NetworkXUnfeasible")
    /\ UNCHANGED << world, obj_map, item_map, queue, nodes, edges, processed, item,
                    todo, enrichTodo, enriched, roots, aborted, ncalls,
                    passed,
                    obj_cache, schedulers, invoked >>

Next ==
    \/ \E sources \in SeqsUpTo(world.names, MaxAppend) : AppendCall(sources)
    \/ PopulateCall
    \/ PopulatePop
    \/ PopulatePopNoRoutine
    \/ ChildDead
    \/ ChildBlacklisted
    \/ ChildNoExpand
    \/ ChildIgnored
    \/ ChildAppend
    \/ ChildAppendRaise
    \/ EnrichStart
    \/ PopulateReturnEmpty
    \/ EnrichStep
    \/ EnrichRaise
    \/ ProcessCall
    \/ \E n \in SeqToSet(nodes) : ProcessVisit(n)
    \/ \E n \in SeqToSet(nodes) : ProcessApplyRaise(n)
    \/ \E n \in SeqToSet(nodes) : ProcessMarkRaise(n)
    \/ ProcessDone
    \/ ProcessCycle

Spec == Init /\ [][Next]_vars

(***************************************************************************)
(* Several Schedulers built one after the other in one process.            *)
(***************************************************************************)
NoWorld == World(<< >>, TestDefault, NoRoutines, {})

CacheInit ==
    /\ world = NoWorld
    /\ obj_map = << >>
    /\ item_map = << >>
    /\ queue = << >>
    /\ nodes = << >>
    /\ edges = {}
    /\ processed = << >>
    /\ pc = "idle"
    /\ item = "none"
    /\ todo = << >>
    /\ enrichTodo = << >>
    /\ enriched = {}
    /\ visited = << >>
    /\ last = Ended("init", "none")
    /\ roots = {}
    /\ aborted = FALSE
    /\ ncalls = 0
    /\ passed = << >>
    /\ obj_cache = << >>
    /\ schedulers = << >>
    /\ invoked = << >>

(* Scheduler(paths=[tree t]): the files are scanned into Obj instances,    *)
(* which come from the cache where their stem is known, and the index is   *)
(* built from them.                                                        *)
Construct(t) ==
    /\ ncalls < MaxCalls
    /\ obj_cache' = CacheAfter(obj_cache, t, Trees[t])
    /\ schedulers' = Append(schedulers,
                            [tree |-> t,
                             obj_map |-> CachedObjMap(world, obj_cache, t, Trees[t])])
    /\ ncalls' = ncalls + 1
    /\ UNCHANGED << world, obj_map, item_map, queue, nodes, edges, processed, pc, item,
                    todo, enrichTodo, enriched, visited, last, roots, aborted, passed,
                    invoked >>

CacheNext == \E t \in 1..Len(Trees) : Construct(t)

CacheSpec == CacheInit /\ [][CacheNext]_vars

(***************************************************************************)
(* The script variant: TaskScheduler of src/scripts/scheduler.py.  It has  *)
(* no source index and no populate: find_path globs for the file of a      *)
(* name, and process drains the queue and then runs the kernels.           *)
(***************************************************************************)
(* One kernel for both roles, and one that leaves drivers alone. *)
IdemKernels == ("idem" :> [driver |-> "idem", kernel |-> "idem"])

KernelsOnly == ("idem" :> [driver |-> "None", kernel |-> "idem"])

(* driver -> kernel -> compute_l1 -> compute_l2                            *)
(*                  -> another_l1 -> another_l2                            *)
(* in lower case throughout, kernel in kernel_mod.F90; driver has the role *)
(* "driver", for which the kernel_map has None.                            *)
ScriptFiles ==
    << One("driver", << "kernel" >>),
       File("kernel_mod",
            << Sub("kernel", << "dr_hook", "compute_l1", "another_l1" >>, {}) >>,
            TRUE, TRUE),
       One("compute_l1", << "compute_l2" >>),
       One("compute_l2", << >>),
       One("another_l1", << "another_l2" >>),
       One("another_l2", << >>) >>

ScriptProj ==
    WithKernels(World(ScriptFiles, TestDefault, ("driver" :> [role |-> "driver"]),
                      {"driver", "compute_l1"}),
                KernelsOnly)

(* The same with another_l1 blacklisted and compute_l1 not expanded. *)
ScriptBlocked ==
    WithKernels(World(ScriptFiles,
                      [TestDefault EXCEPT !.blacklist = {"another_l1"}],
                      ("driver" :> [role |-> "driver"])
                         @@ ("compute_l1" :> [expand |-> FALSE]),
                      {"driver", "kernel"}),
                KernelsOnly)

(* a calls B and c, b calls c; every Task has a kernel.                    *)
ScriptSmall ==
    WithKernels(World(<< One("a", << "B", "c" >>), One("b", << "c" >>), One("c", << >>) >>,
                      TestDefault, NoRoutines, {"a", "b", "c"}),
                IdemKernels)

(* The kernel raises on b; graphviz is installed and no config has a       *)
(* whitelist; the kernel_map has no entry for the role of b.               *)
ScriptKernelRaises == Raising(ScriptSmall, {"b"})

ScriptWithGraph == WithGraph(ScriptSmall)

ScriptNoRole ==
    WithKernels(World(<< One("a", << "b" >>), One("b", << >>) >>,
                      TestDefault, ("b" :> [role |-> "other"]), {"a"}),
                IdemKernels)

(* p and q call each other. *)
ScriptCyc ==
    WithKernels(World(<< One("p", << "q" >>), One("q", << "p" >>) >>,
                      TestDefault, NoRoutines, {"p", "q"}),
                IdemKernels)

(* "ghost" has no file, "bad" does not parse under the strict default,     *)
(* "lax" does not parse and is not strict.                                 *)
ScriptErr ==
    WithKernels(World(<< One("top", << "leaf", "lax", "ghost", "mid" >>),
                         One("mid", << "bad" >>),
                         File("bad", << Sub("bad", << >>, {}) >>, TRUE, FALSE),
                         File("lax", << Sub("lax", << >>, {}) >>, TRUE, FALSE),
                         One("leaf", << >>) >>,
                      TestDefault, ("lax" :> [strict |-> FALSE]),
                      {"top", "mid", "lax"}),
                IdemKernels)

ScriptWorlds ==
    { ScriptProj, ScriptBlocked, ScriptSmall, ScriptKernelRaises, ScriptWithGraph,
      ScriptNoRole, ScriptCyc, ScriptErr }

ScriptDeadList == {"dr_hook", "abor1"}

(* source + '_mod', on the names of the script worlds that have such a     *)
(* file.                                                                   *)
ModStem(source) ==
    CASE source = "kernel" -> "kernel_mod"
      [] OTHER -> "none"

(* TaskScheduler.find_path: the first file that the glob for source.F90    *)
(* finds, else the first one that the glob for source_mod.F90 finds, 0     *)
(* when there is none (RuntimeError).                                      *)
ScriptFindPath(w, source) ==
    LET plain == { i \in 1..Len(w.files) :
                     w.files[i].exists /\ w.files[i].stem = source }
        mod == { i \in 1..Len(w.files) :
                   w.files[i].exists /\ w.files[i].stem = ModStem(source) }
    IN  IF plain # {} THEN Min(plain)
        ELSE IF mod # {} THEN Min(mod)
        ELSE 0

(* One turn of the loop of TaskScheduler.append. *)
ScriptAppendOne(w, st, source) ==
    IF st.err # "none" THEN st
    ELSE IF source \in DOMAIN st.item_map THEN st
    ELSE IF ScriptFindPath(w, source) = 0 THEN [st EXCEPT !.err = "RuntimeError"]
    ELSE IF TaskOutcome(w, source, ScriptFindPath(w, source)) = "raise"
         THEN [st EXCEPT !.err = "ParseError"]
         ELSE Sched(st.item_map @@ (source :> NewTask(w, source, ScriptFindPath(w, source))),
                    Append(st.queue, source),
                    Append(st.nodes, source),
                    "none")

RECURSIVE ScriptAppendAll(_, _, _)
ScriptAppendAll(w, st, sources) ==
    IF sources = << >> THEN st
    ELSE ScriptAppendAll(w, ScriptAppendOne(w, st, Head(sources)), Tail(sources))

(* Task.children of the script: the names of all calls, lower-cased. *)
ScriptChildren(w, task) ==
    LET r == w.files[task.routine].subs[1]
    IN  [i \in 1..Len(r.calls) |-> Lower(r.calls[i])]

(* What the body of `for child in item.children` decides for one child. *)
ScriptChildVerdict(cfg, child) ==
    IF child \in ScriptDeadList THEN "dead"
    ELSE IF child \in cfg.blacklist THEN "blacklisted"
    ELSE IF ~cfg.expand THEN "noexpand"
    ELSE "append"

(* kernel = self.kernel_map[mode][role]: "KeyError" where the map has no   *)
(* such entry, "None" for None.                                            *)
KernelOf(w, task) ==
    IF task.config.mode \in DOMAIN w.kernel_map
    THEN IF task.config.role \in DOMAIN w.kernel_map[task.config.mode]
         THEN w.kernel_map[task.config.mode][task.config.role]
         ELSE "KeyError"
    ELSE "KeyError"

(* How one turn of the traversal loop ends for a Task: the look into the   *)
(* kernel_map raises ("KeyError"), the kernel raises ("KernelError"), the  *)
(* look into config['whitelist'] raises after the Task has been appended   *)
(* to `processed` ("MarkKeyError"), or the turn is completed ("none").      *)
ScriptVisitOutcome(w, task) ==
    IF KernelOf(w, task) = "KeyError" THEN "KeyError"
    ELSE IF KernelOf(w, task) # "None" /\ task.name \in w.raises THEN "KernelError"
    ELSE IF MarkRaises(w.gviz, task) THEN "MarkKeyError"
    ELSE "none"

ScriptInit ==
    /\ world \in ScriptWorlds
    /\ obj_map = << >>
    /\ item_map = << >>
    /\ queue = << >>
    /\ nodes = << >>
    /\ edges = {}
    /\ processed = << >>
    /\ pc = "idle"
    /\ item = "none"
    /\ todo = << >>
    /\ enrichTodo = << >>
    /\ enriched = {}
    /\ visited = << >>
    /\ last = Ended("init", "none")
    /\ roots = {}
    /\ aborted = FALSE
    /\ ncalls = 0
    /\ passed = << >>
    /\ obj_cache = << >>
    /\ schedulers = << >>
    /\ invoked = << >>

(* scheduler.append(sources), called from outside. *)
ScriptAppendCall(sources) ==
    /\ pc = "idle"
    /\ ncalls < MaxCalls
    /\ LET r == ScriptAppendAll(world, Sched(item_map, queue, nodes, "none"), sources)
       IN  /\ item_map' = r.item_map
           /\ queue' = r.queue
           /\ nodes' = r.nodes
           /\ last' = Ended("append", r.err)
           /\ roots' = roots \cup (DOMAIN r.item_map \ DOMAIN item_map)
    /\ ncalls' = ncalls + 1
    /\ UNCHANGED << world, obj_map, edges, processed, pc, item, todo, enrichTodo,
                    enriched, visited, aborted, passed, obj_cache, schedulers,
                    invoked >>

(* scheduler.process(), called from outside. *)
ScriptProcessCall ==
    /\ pc = "idle"
    /\ ncalls < MaxCalls
    /\ pc' = "drain"
    /\ invoked' = << >>
    /\ ncalls' = ncalls + 1
    /\ UNCHANGED << world, obj_map, item_map, queue, nodes, edges, processed, item,
                    todo, enrichTodo, enriched, visited, last, roots, aborted,
                    passed, obj_cache, schedulers >>

(* item = self.queue.popleft(); item.children of a parsed Task *)
ScriptPop ==
    /\ pc = "drain"
    /\ queue # << >>
    /\ item_map[Head(queue)].routine # 0
    /\ item' = Head(queue)
    /\ queue' = Tail(queue)
    /\ todo' = ScriptChildren(world, item_map[Head(queue)])
    /\ pc' = IF todo' = << >> THEN "drain" ELSE "children"
    /\ UNCHANGED << world, obj_map, item_map, nodes, edges, processed, enrichTodo,
                    enriched, visited, last, roots, aborted, ncalls, passed,
                    obj_cache, schedulers, invoked >>

(* item.children of a Task whose routine is None: self.routine.ir raises   *)
(* AttributeError.                                                         *)
ScriptPopNoRoutine ==
    /\ pc = "drain"
    /\ queue # << >>
    /\ item_map[Head(queue)].routine = 0
    /\ item' = "none"
    /\ queue' = Tail(queue)
    /\ pc' = "idle"
    /\ last' = Ended("process", "AttributeError")
    /\ aborted' = TRUE
    /\ UNCHANGED << world, obj_map, item_map, nodes, edges, processed, todo,
                    enrichTodo, enriched, visited, roots, ncalls, passed,
                    obj_cache, schedulers, invoked >>

(* `continue`, or an `if item.config['expand']` that is false. *)
ScriptChildSkip(verdict) ==
    /\ pc = "children"
    /\ ScriptChildVerdict(item_map[item].config, Head(todo)) = verdict
    /\ todo' = Tail(todo)
    /\ pc' = NextChildPc
    /\ UNCHANGED << world, obj_map, item_map, queue, nodes, edges, processed, item,
                    enrichTodo, enriched, visited, last, roots, aborted, ncalls,
                    passed, obj_cache, schedulers, invoked >>

ScriptChildDead == ScriptChildSkip("dead")

ScriptChildBlacklisted == ScriptChildSkip("blacklisted")

ScriptChildNoExpand == ScriptChildSkip("noexpand")

(* self.append(child); self.taskgraph.add_edge(item, self.item_map[child]) *)
ScriptChildAppend ==
    /\ pc = "children"
    /\ ScriptChildVerdict(item_map[item].config, Head(todo)) = "append"
    /\ LET r == ScriptAppendOne(world, Sched(item_map, queue, nodes, "none"), Head(todo))
       IN  /\ r.err = "none"
           /\ item_map' = r.item_map
           /\ queue' = r.queue
           /\ nodes' = r.nodes
    /\ edges' = edges \cup { << item, Head(todo) >> }
    /\ todo' = Tail(todo)
    /\ pc' = NextChildPc
    /\ UNCHANGED << world, obj_map, processed, item, enrichTodo, enriched, visited,
                    last, roots, aborted, ncalls, passed, obj_cache, schedulers,
                    invoked >>

(* self.append(child) raises: process is left with the error. *)
ScriptChildAppendRaise ==
    /\ pc = "children"
    /\ ScriptChildVerdict(item_map[item].config, Head(todo)) = "append"
    /\ LET r == ScriptAppendOne(world, Sched(item_map, queue, nodes, "none"), Head(todo))
       IN  /\ r.err # "none"
           /\ last' = Ended("process", r.err)
    /\ pc' = "idle"
    /\ item' = "none"
    /\ todo' = << >>
    /\ aborted' = TRUE
    /\ UNCHANGED << world, obj_map, item_map, queue, nodes, edges, processed,
                    enrichTodo, enriched, visited, roots, ncalls, passed,
                    obj_cache, schedulers, invoked >>

(* The queue is empty: the loop over nx.topological_sort starts. *)
ScriptTraverse ==
    /\ pc = "drain"
    /\ queue = << >>
    /\ pc' = "process"
    /\ item' = "none"
    /\ visited' = << >>
    /\ UNCHANGED << world, obj_map, item_map, queue, nodes, edges, processed, todo,
                    enrichTodo, enriched, last, roots, aborted, ncalls, passed,
                    obj_cache, schedulers, invoked >>

(* ScriptVisit, with a Task that has no kernel not marked as processed. *)
ScriptVisit_SkipsNoKernel(n) ==
    /\ pc = "process"
    /\ n \in Ready(nodes, edges, visited)
    /\ ScriptVisitOutcome(world, item_map[n]) = "none"
    /\ invoked' = IF KernelOf(world, item_map[n]) = "None"
                  THEN invoked ELSE Append(invoked, n)
    /\ visited' = Append(visited, n)
    /\ processed' = IF KernelOf(world, item_map[n]) = "None"
                    THEN processed ELSE Append(processed, n)
    /\ UNCHANGED << world, obj_map, item_map, queue, nodes, edges, pc, item, todo,
                    enrichTodo, enriched, last, roots, aborted, ncalls, passed,
                    obj_cache, schedulers >>

(* One turn of the traversal: the kernel of the Task, if it has one, is    *)
(* called; the Task is appended to `processed`.                            *)
ScriptVisit(n) ==
    /\ pc = "process"
    /\ n \in Ready(nodes, edges, visited)
    /\ ScriptVisitOutcome(world, item_map[n]) = "none"
    /\ invoked' = IF KernelOf(world, item_map[n]) = "None"
                  THEN invoked ELSE Append(invoked, n)
    /\ visited' = Append(visited, n)
    /\ processed' = Append(processed, n)
    /\ UNCHANGED << world, obj_map, item_map, queue, nodes, edges, pc, item, todo,
                    enrichTodo, enriched, last, roots, aborted, ncalls, passed,
                    obj_cache, schedulers >>

(* One turn of the traversal raises, and process with it. *)
ScriptVisitRaise(n) ==
    /\ pc = "process"
    /\ n \in Ready(nodes, edges, visited)
    /\ ScriptVisitOutcome(world, item_map[n]) # "none"
    /\ invoked' = IF KernelOf(world, item_map[n]) \in {"None", "KeyError"}
                  THEN invoked ELSE Append(invoked, n)
    /\ processed' = IF ScriptVisitOutcome(world, item_map[n]) = "MarkKeyError"
                    THEN Append(processed, n) ELSE processed
    /\ visited' = << >>
    /\ pc' = "idle"
    /\ last' = Ended("process",
                     IF ScriptVisitOutcome(world, item_map[n]) = "MarkKeyError"
                     THEN "KeyError" ELSE ScriptVisitOutcome(world, item_map[n]))
    /\ UNCHANGED << world, obj_map, item_map, queue, nodes, edges, item, todo,
                    enrichTodo, enriched, roots, aborted, ncalls, passed,
                    obj_cache, schedulers >>

(* The generator is exhausted: process returns. *)
ScriptDone ==
    /\ pc = "process"
    /\ SeqToSet(nodes) \subseteq SeqToSet(visited)
    /\ pc' = "idle"
    /\ last' = Ended("process", "none")
    /\ UNCHANGED << world, obj_map, item_map, queue, nodes, edges, processed, item,
                    todo, enrichTodo, enriched, visited, roots, aborted, ncalls,
                    passed, obj_cache, schedulers, invoked >>

(* Nodes are left and none can be yielded: NetworkXUnfeasible. *)
ScriptCycle ==
    /\ pc = "process"
    /\ ~(SeqToSet(nodes) \subseteq SeqToSet(visited))
    /\ Ready(nodes, edges, visited) = {}
    /\ pc' = "idle"
    /\ visited' = << >>
    /\ last' = Ended("process", "NetworkXUnfeasible")
    /\ UNCHANGED << world, obj_map, item_map, queue, nodes, edges, processed, item,
                    todo, enrichTodo, enriched, roots, aborted, ncalls, passed,
                    obj_cache, schedulers, invoked >>

ScriptNext ==
    \/ \E sources \in SeqsUpTo(world.names, MaxAppend) : ScriptAppendCall(sources)
    \/ ScriptProcessCall
    \/ ScriptPop
    \/ ScriptPopNoRoutine
    \/ ScriptChildDead
    \/ ScriptChildBlacklisted
    \/ ScriptChildNoExpand
    \/ ScriptChildAppend
    \/ ScriptChildAppendRaise
    \/ ScriptTraverse
    \/ \E n \in SeqToSet(nodes) : ScriptVisit(n)
    \/ \E n \in SeqToSet(nodes) : ScriptVisitRaise(n)
    \/ ScriptDone
    \/ ScriptCycle

ScriptSpec == ScriptInit /\ [][ScriptNext]_vars

(* The steps a call takes once it has been made: the interpreter runs the  *)
(* loops of populate and process on until the call returns or raises.      *)
Running ==
    \/ PopulatePop
    \/ PopulatePopNoRoutine
    \/ ChildDead
    \/ ChildBlacklisted
    \/ ChildNoExpand
    \/ ChildIgnored
    \/ ChildAppend
    \/ ChildAppendRaise
    \/ EnrichStart
    \/ PopulateReturnEmpty
    \/ EnrichStep
    \/ EnrichRaise
    \/ \E n \in SeqToSet(nodes) : ProcessVisit(n)
    \/ \E n \in SeqToSet(nodes) : ProcessApplyRaise(n)
    \/ \E n \in SeqToSet(nodes) : ProcessMarkRaise(n)
    \/ ProcessDone
    \/ ProcessCycle

(* The scheduler with calls that run on: whether a call is made is up to   *)
(* the caller, a call that has been made is not left half-way.             *)
LiveSpec == Init /\ [][Next]_vars /\ WF_vars(Running)

(***************************************************************************)
(* What the claims speak of.                                               *)
(***************************************************************************)
NodeSet == SeqToSet(nodes)

(* The last call was populate() and it returned. *)
PopulateReturned == pc = "idle" /\ last.op = "populate" /\ last.ok

(* Position of n in the sequence s, 0 when absent. *)
Pos(s, n) == IF n \in SeqToSet(s) THEN Min({ i \in 1..Len(s) : s[i] = n }) ELSE 0

Count(s, n) == Cardinality({ i \in 1..Len(s) : s[i] = n })

(* The call structure, read off the world and not off the task graph: the  *)
(* calls of the routine a Task named n gets, none when n has no file or    *)
(* its file gives no routine.                                              *)
CallsOf(n) ==
    IF n \in DOMAIN obj_map
    THEN LET f == world.files[obj_map[n]]
         IN  IF f.exists /\ f.parses /\ Len(f.subs) > 0
             THEN SeqToSet(f.subs[1].calls) \ { c \in SeqToSet(f.subs[1].calls) :
                        \E m \in f.subs[1].members : Lower(m) = Lower(c) }
             ELSE {}
    ELSE {}

CfgOf(n) ==
    [k \in DOMAIN world.default \cup
           (IF n \in DOMAIN world.routines THEN DOMAIN world.routines[n] ELSE {}) |->
        IF n \in DOMAIN world.routines /\ k \in DOMAIN world.routines[n]
        THEN world.routines[n][k] ELSE world.default[k]]

IgnoreOf(n) == IF "ignore" \in DOMAIN CfgOf(n) THEN CfgOf(n).ignore ELSE {}

(* The callees an expanding caller is followed into, with `free` taken     *)
(* out of every blacklist.                                                 *)
FollowedFree(n, free) ==
    IF CfgOf(n).expand
    THEN { c \in CallsOf(n) :
             /\ c \notin DeadList
             /\ c \notin (CfgOf(n).blacklist \ free)
             /\ c \notin IgnoreOf(n) }
    ELSE {}

Followed(n) == FollowedFree(n, {})

(* The names reachable from S through followed calls that avoid `avoid`. *)
RECURSIVE ReachFree(_, _, _)
ReachFree(S, free, avoid) ==
    LET T == S \cup ((UNION { FollowedFree(n, free) : n \in S }) \ avoid)
    IN  IF T = S THEN S ELSE ReachFree(T, free, avoid)

ExpectedNodes == ReachFree(roots, {}, {})

ExpectedEdges ==
    UNION { { << n, c >> : c \in Followed(n) } : n \in ExpectedNodes }

C1_AfterAbort ==
    PopulateReturned => (edges = ExpectedEdges /\ NodeSet = ExpectedNodes)

(***************************************************************************)
(* C2 as stated: process visits, for every edge A -> B of the task graph,  *)
(* B strictly before A (callees before their callers).                     *)
(***************************************************************************)
C2_CalleesBeforeCallers ==
    pc = "process" =>
        \A e \in edges :
            (e[1] # e[2] /\ e[1] \in SeqToSet(visited)) =>
                (e[2] \in SeqToSet(visited) /\ Pos(visited, e[2]) < Pos(visited, e[1]))

(***************************************************************************)
(* C2 as amended: process applies the transformation in an order such      *)
(* that for every edge A -> B of the task graph, A is visited strictly     *)
(* before B (top-down: callers before their callees).                      *)
(***************************************************************************)
C2_CallersBeforeCallees ==
    pc = "process" =>
        \A e \in edges :
            e[2] \in SeqToSet(visited) =>
                /\ e[1] \in SeqToSet(visited)
                /\ Pos(visited, e[1]) < Pos(visited, e[2])

(* A traversal has visited every node of a graph with several edges. *)
C2_Witness ==
    /\ pc = "process"
    /\ NodeSet = SeqToSet(visited)
    /\ Cardinality(edges) >= 2
    /\ \E e \in edges : Pos(visited, e[1]) < Pos(visited, e[2])

(***************************************************************************)
(* C3.  process traverses the task graph in topological order of the       *)
(* caller -> callee edges: whenever a Task B is passed to the              *)
(* transformation, every Task A with an edge A -> B has been passed to it  *)
(* earlier in the same call.                                               *)
(***************************************************************************)
C3_TopologicalOrder ==
    [][ \A n \in NodeSet :
          (pc = "process" /\ (processed' = Append(processed, n) \/ ProcessApplyRaise(n))) =>
              /\ n \notin SeqToSet(visited)
              /\ \A e \in edges : e[2] = n => (e[1] # n /\ e[1] \in SeqToSet(visited)) ]_vars

(* A callee has been passed to the transformation right after its caller. *)
C3_Witness ==
    /\ pc = "process"
    /\ Len(visited) >= 2
    /\ << visited[Len(visited) - 1], visited[Len(visited)] >> \in edges

(* The Task named t has child c in its own blacklist. *)
BlacklistsChild(t, c) ==
    /\ t \in DOMAIN item_map
    /\ item_map[t].routine # 0
    /\ c \in SeqToSet(Children(world, item_map[t]))
    /\ c \in item_map[t].config.blacklist

(***************************************************************************)
(* C4 as stated: if child C is in the blacklist of task T's merged config, *)
(* then after populate() C is not a node of the task graph and there is no *)
(* edge T -> C, whichever other task calls C.  (Stated for the C that the  *)
(* caller did not append as roots.)                                        *)
(***************************************************************************)
C4_BlacklistedNeverNode ==
    PopulateReturned =>
        \A t \in NodeSet : \A c \in (world.names \cup DOMAIN obj_map) \ roots :
            BlacklistsChild(t, c) => (c \notin NodeSet /\ << t, c >> \notin edges)

(***************************************************************************)
(* C4 as amended: if child C is in the blacklist of task T's merged        *)
(* config, then there is never an edge T -> C, and C is a node of the task *)
(* graph only if C was appended as a root or a task other than T, whose    *)
(* own config does not blacklist C, has an edge to C.                      *)
(***************************************************************************)
C4_BlacklistedNoEdge ==
    \A t \in NodeSet : \A c \in world.names \cup DOMAIN obj_map :
        BlacklistsChild(t, c) =>
            /\ << t, c >> \notin edges
            /\ c \in NodeSet =>
                  \/ c \in roots
                  \/ \E u \in NodeSet \ {t} :
                        /\ << u, c >> \in edges
                        /\ c \notin item_map[u].config.blacklist

(* populate() has returned with a blacklisted child left out, and with a   *)
(* child blacklisted by one caller brought in by another.                  *)
C4_Witness ==
    /\ PopulateReturned
    /\ \E t \in NodeSet : \E c \in DOMAIN obj_map :
          /\ BlacklistsChild(t, c)
          /\ t \notin SeqToSet(queue)
          /\ (c \notin NodeSet \/ (c \notin roots /\ \E u \in NodeSet : << u, c >> \in edges))

(***************************************************************************)
(* C5.  When every task that calls C has C in its blacklist and C is not   *)
(* appended as a root, then after populate() neither C nor any routine     *)
(* reachable only through C is a node or an endpoint of an edge, and every *)
(* node and edge reachable without passing through C is present.           *)
(***************************************************************************)
(* Every cached Task that calls c blacklists it, and one does call it. *)
BlacklistedEverywhere(c) ==
    /\ c \notin roots
    /\ \E t \in NodeSet : BlacklistsChild(t, c)
    /\ \A t \in DOMAIN obj_map : c \in CallsOf(t) => c \in CfgOf(t).blacklist

(* What populate would reach were c in no blacklist, and what of it lies   *)
(* behind c only.                                                          *)
ReachWith(c) == ReachFree(roots, {c}, {})

ReachAround(c) == ReachFree(roots, {c}, {c})

OnlyThrough(c) == ReachWith(c) \ ReachAround(c)

C5_BlacklistCutsSubtree ==
    (PopulateReturned /\ ~aborted) =>
        \A c \in DOMAIN obj_map :
            BlacklistedEverywhere(c) =>
                /\ NodeSet \cap OnlyThrough(c) = {}
                /\ c \notin NodeSet
                /\ \A e \in edges : e[1] \notin OnlyThrough(c) /\ e[2] \notin OnlyThrough(c)
                /\ ReachAround(c) \subseteq NodeSet
                /\ \A n \in ReachAround(c) : \A d \in FollowedFree(n, {c}) \ {c} : << n, d >> \in edges

(* projA with another_l1 blacklisted: another_l2 lies behind it only. *)
C5_Witness ==
    /\ PopulateReturned
    /\ ~aborted
    /\ \E c \in DOMAIN obj_map :
          /\ BlacklistedEverywhere(c)
          /\ OnlyThrough(c) \ {c} # {}
          /\ Cardinality(edges) >= 3

(***************************************************************************)
(* C6.  A task T whose merged config has expand=false never has an         *)
(* outgoing edge, and while T's children are looked at nothing is cached,  *)
(* queued or added to the task graph.                                      *)
(***************************************************************************)
C6_NoExpandNoEdges ==
    /\ [](\A t \in NodeSet : ~item_map[t].config.expand => \A e \in edges : e[1] # t)
    /\ [][ (pc = "children" /\ ~item_map[item].config.expand) =>
              /\ item_map' = item_map
              /\ queue' = queue
              /\ nodes' = nodes
              /\ edges' = edges
              /\ pc' \in {"children", "drain"} ]_vars

(* The children of a Task that does not expand have all been looked at. *)
C6_Witness ==
    /\ PopulateReturned
    /\ \E t \in NodeSet :
          /\ ~item_map[t].config.expand
          /\ item_map[t].routine # 0
          /\ Len(Children(world, item_map[t])) > 1
          /\ t \in enriched

(***************************************************************************)
(* C7.  append is idempotent per name: a name that is in the Task cache    *)
(* keeps its Task unchanged whatever is appended, directly or through      *)
(* populate, and gains no graph node and no place in the work queue; a     *)
(* cached name is one graph node and is queued at most once.               *)
(***************************************************************************)
C7_AppendIdempotent ==
    /\ [](\A n \in DOMAIN item_map : Count(nodes, n) = 1 /\ Count(queue, n) <= 1)
    /\ [][ \A n \in DOMAIN item_map :
              /\ n \in DOMAIN item_map'
              /\ item_map'[n] = item_map[n]
              /\ Count(nodes', n) = Count(nodes, n)
              /\ Count(queue', n) <= Count(queue, n) ]_vars

(* An append call has met a cached name, and populate has appended a       *)
(* child that two callers share.                                           *)
C7_Witness ==
    /\ last.op = "append"
    /\ last.ok
    /\ last.hit
    /\ \E c \in NodeSet : Cardinality({ e \in edges : e[2] = c }) >= 2

(***************************************************************************)
(* C8.  There is at most one Task per canonical (lower-cased) routine      *)
(* name: two names that differ only in letter case never yield two Tasks   *)
(* or two graph nodes.                                                     *)
(***************************************************************************)
C8_OneTaskPerCanonicalName ==
    /\ \A m, n \in DOMAIN item_map : Lower(m) = Lower(n) => m = n
    /\ \A i, j \in 1..Len(nodes) : Lower(nodes[i]) = Lower(nodes[j]) => i = j

(* The call that ended last was `op` and it ended with `err`. *)
EndedWith(l, op, err) == l.op = op /\ l.err = err /\ l.ok = (err = "none")

(* The index has no file for n. *)
Unresolved(n) == n \notin DOMAIN obj_map

(* The file of n does not parse and n's merged config is strict. *)
StrictFail(n) ==
    /\ n \in DOMAIN obj_map
    /\ world.files[obj_map[n]].exists
    /\ ~(world.files[obj_map[n]].parses /\ Len(world.files[obj_map[n]].subs) > 0)
    /\ CfgOf(n).strict

(* No trace of n in the cache, the queue or the task graph. *)
Unregistered(n) ==
    /\ n \notin DOMAIN item_map
    /\ n \notin SeqToSet(queue)
    /\ n \notin NodeSet
    /\ \A e \in edges : e[1] # n /\ e[2] # n

(***************************************************************************)
(* C9.  append of a name that no file of the source index defines raises   *)
(* and leaves the Task cache, the work queue and the task graph without an *)
(* entry for that name; the names before it in the same call are           *)
(* registered.                                                             *)
(***************************************************************************)
C9_UnresolvedAppendRaises ==
    /\ [](\A n \in world.names : Unresolved(n) => Unregistered(n))
    /\ [][ \A sources \in SeqsUpTo(world.names, MaxAppend) :
             AppendCall(sources) =>
                \A i \in 1..Len(sources) :
                    ( /\ Unresolved(sources[i])
                      /\ \A j \in 1..(i - 1) :
                            ~Unresolved(sources[j]) /\ ~StrictFail(sources[j]) ) =>
                        /\ EndedWith(last', "append", "RuntimeError")
                        /\ pc' = "idle"
                        /\ \A j \in 1..(i - 1) :
                              /\ sources[j] \in DOMAIN item_map'
                              /\ sources[j] \in SeqToSet(nodes')
                              /\ sources[j] \notin DOMAIN item_map =>
                                    sources[j] \in SeqToSet(queue') ]_vars

(* The first call was an append that registered a name and then met one    *)
(* the index lacks.                                                        *)
C9_Witness ==
    /\ ncalls = 1
    /\ EndedWith(last, "append", "RuntimeError")
    /\ roots # {}
    /\ \E n \in world.names : Unresolved(n)

(***************************************************************************)
(* C10.  When the file of a Task does not parse and the Task's merged      *)
(* config is strict, the failure leaves append, and leaves populate when   *)
(* the Task is a discovered child; populate stops there, and the name is   *)
(* not registered in the Task cache, the work queue or the task graph.     *)
(***************************************************************************)
C10_StrictParseFailureAborts ==
    /\ [](\A n \in DOMAIN obj_map : StrictFail(n) => Unregistered(n))
    /\ [][ \A sources \in SeqsUpTo(world.names, MaxAppend) :
             AppendCall(sources) =>
                \A i \in 1..Len(sources) :
                    ( /\ StrictFail(sources[i])
                      /\ \A j \in 1..(i - 1) :
                            ~Unresolved(sources[j]) /\ ~StrictFail(sources[j]) ) =>
                        (EndedWith(last', "append", "ParseError") /\ pc' = "idle") ]_vars
    /\ [][ ( /\ pc = "children"
             /\ Head(todo) \in Followed(item)
             /\ StrictFail(Head(todo)) ) =>
                /\ pc' = "idle"
                /\ EndedWith(last', "populate", "ParseError")
                /\ item_map' = item_map
                /\ queue' = queue
                /\ nodes' = nodes
                /\ edges' = edges
                /\ enriched' = enriched ]_vars

(* populate has been aborted by the parse failure of a discovered child,   *)
(* after it had added other children.                                      *)
C10_Witness ==
    /\ EndedWith(last, "populate", "ParseError")
    /\ pc = "idle"
    /\ edges # {}
    /\ \E n \in DOMAIN obj_map : StrictFail(n) /\ \E t \in NodeSet : n \in CallsOf(t)

(* The file of n is there, does not parse, and n's merged config is not    *)
(* strict.                                                                 *)
NonStrictFail(n) ==
    /\ n \in DOMAIN obj_map
    /\ world.files[obj_map[n]].exists
    /\ ~(world.files[obj_map[n]].parses /\ Len(world.files[obj_map[n]].subs) > 0)
    /\ ~CfgOf(n).strict

(* The file the index has for n is not there when the Task is built. *)
MissingFile(n) ==
    /\ n \in DOMAIN obj_map
    /\ ~world.files[obj_map[n]].exists

(* The Task of n is a node with a null routine and no outgoing edge. *)
NullLeaf(n) ==
    /\ n \in NodeSet
    /\ item_map[n].routine = 0
    /\ \A e \in edges : e[1] # n

(***************************************************************************)
(* C11.  A Task whose file does not parse under strict=false is kept as a  *)
(* graph node with a null routine and no outgoing edge, and populate runs  *)
(* over it to completion: popping it from the queue finds no children and  *)
(* goes on draining, and the enrichment pass does not raise at it.         *)
(***************************************************************************)
C11_NonStrictFailureIsLeaf ==
    /\ [](\A n \in DOMAIN item_map : NonStrictFail(n) => NullLeaf(n))
    /\ [][ (pc = "drain" /\ queue # << >> /\ NonStrictFail(Head(queue))) =>
              (pc' = "drain" /\ queue' = Tail(queue) /\ last' = last) ]_vars
    /\ [][ (pc = "enrich" /\ NonStrictFail(Head(enrichTodo))) =>
              ~(pc' = "idle" /\ ~last'.ok) ]_vars

(***************************************************************************)
(* C12.  A Task whose resolved path does not exist is never fatal: append  *)
(* creates it whatever `strict` says, it is a graph node with a null       *)
(* routine and no outgoing edge, and populate runs over it to completion.  *)
(***************************************************************************)
C12_MissingFileIsLeaf ==
    /\ [](\A n \in DOMAIN item_map : MissingFile(n) => NullLeaf(n))
    /\ [][ \A n \in world.names :
              (MissingFile(n) /\ AppendCall(<< n >>)) =>
                  (last'.ok /\ n \in DOMAIN item_map') ]_vars
    /\ [][ (pc = "children" /\ Head(todo) \in Followed(item) /\ MissingFile(Head(todo))) =>
              (pc' # "idle" /\ << item, Head(todo) >> \in edges') ]_vars
    /\ [][ (pc = "drain" /\ queue # << >> /\ MissingFile(Head(queue))) =>
              (pc' = "drain" /\ queue' = Tail(queue) /\ last' = last) ]_vars
    /\ [][ (pc = "enrich" /\ MissingFile(Head(enrichTodo))) =>
              ~(pc' = "idle" /\ ~last'.ok) ]_vars


(* The last Len(visited) entries of `processed`. *)
AddedByThisCall ==
    SubSeq(processed, Len(processed) - Len(visited) + 1, Len(processed))

(* The process call under way ends at this step with the error of the      *)
(* transformation.                                                         *)
ProcessRaises ==
    /\ pc = "process"
    /\ pc' = "idle"
    /\ EndedWith(last', "process", "TransformationError")

Acyclic(ns, es) ==
    \A S \in SUBSET ns :
        S # {} => \E n \in S : \A e \in es : e[2] = n => e[1] \notin S

(* The transformation handed to process raises on no node. *)
NeverRaises == NodeSet \cap world.raises = {}

(* Colouring the processed node does not raise: there is no rendering      *)
(* graph, or every Task's config has a 'whitelist' key.                    *)
MarksSafely == \A n \in NodeSet : ~MarkRaises(world.gviz, item_map[n])

VisitWithoutGraph(n) ==
    /\ pc = "process"
    /\ n \in Ready(nodes, edges, visited)
    /\ n \notin world.raises
    /\ visited' = Append(visited, n)
    /\ processed' = Append(processed, n)
    /\ UNCHANGED << world, obj_map, item_map, queue, nodes, edges, pc, item, todo,
                    enrichTodo, enriched, last, roots, aborted, ncalls,
                    passed,
                    obj_cache, schedulers, invoked >>

(* The steps of a Scheduler whose self.graph is None. *)
StepWithoutGraph ==
    \/ \E sources \in SeqsUpTo(world.names, MaxAppend) : AppendCall(sources)
    \/ PopulateCall
    \/ PopulatePop
    \/ PopulatePopNoRoutine
    \/ ChildDead
    \/ ChildBlacklisted
    \/ ChildNoExpand
    \/ ChildIgnored
    \/ ChildAppend
    \/ ChildAppendRaise
    \/ EnrichStart
    \/ PopulateReturnEmpty
    \/ EnrichStep
    \/ EnrichRaise
    \/ ProcessCall
    \/ \E n \in SeqToSet(nodes) : VisitWithoutGraph(n)
    \/ \E n \in SeqToSet(nodes) : ProcessApplyRaise(n)
    \/ ProcessDone
    \/ ProcessCycle

(***************************************************************************)
(* C18.  The rendering graph alters nothing else: from every state, each   *)
(* step of a Scheduler, with the rendering graph or without it, is a step  *)
(* that the Scheduler without it takes, to the same Task cache, work       *)
(* queue, task graph, processed list and raised error.                     *)
(***************************************************************************)
C18_RenderingGraphAltersNothing == [][StepWithoutGraph]_vars


(* The override record registered under n, empty when there is none. *)
OverrideOf(n) ==
    IF n \in DOMAIN world.routines THEN world.routines[n] ELSE [k \in {} |-> TRUE]

(***************************************************************************)
(* C15.  The config of every Task is the default record overlaid with the  *)
(* override record registered under the Task's name: its keys are those of *)
(* both, a key of the override has the override's value and any other key  *)
(* the default's.  No step changes the default record, the overrides, or   *)
(* the config of a Task that exists.                                       *)
(***************************************************************************)
C15_ConfigIsDefaultOverlaid ==
    /\ [](\A n \in DOMAIN item_map :
            /\ DOMAIN item_map[n].config = DOMAIN world.default \cup DOMAIN OverrideOf(n)
            /\ \A k \in DOMAIN item_map[n].config :
                  item_map[n].config[k] =
                      IF k \in DOMAIN OverrideOf(n)
                      THEN OverrideOf(n)[k] ELSE world.default[k])
    /\ [][ /\ world'.default = world.default
           /\ world'.routines = world.routines
           /\ \A n \in DOMAIN item_map : item_map'[n].config = item_map[n].config ]_vars

(* test_scheduler_process: compute_l1 is a driver by its override and      *)
(* compute_l2, discovered from it, keeps the role of the default record.   *)
C15_Witness ==
    /\ {"compute_l1", "compute_l2"} \subseteq DOMAIN item_map
    /\ "compute_l1" \in DOMAIN world.routines
    /\ item_map["compute_l1"].config.role = "driver"
    /\ item_map["compute_l2"].config.role = "kernel"
    /\ world.default.role = "kernel"


(* The children of the Task t, none when it has no routine. *)
ChildSet(t) ==
    IF t \in DOMAIN item_map /\ item_map[t].routine # 0
    THEN SeqToSet(Children(world, item_map[t]))
    ELSE {}

(* The ignore list of the Task t. *)
IgnoreList(t) == Get(item_map[t].config, "ignore", {})

(* t expands its children and has its child c in its ignore list. *)
IgnoresChild(t, c) ==
    /\ c \in ChildSet(t)
    /\ item_map[t].config.expand
    /\ c \in IgnoreList(t)

(***************************************************************************)
(* C16 as stated: a child C in the ignore list of an expanding task T is   *)
(* not enqueued and gains no Task, no graph node and no edge T -> C; it    *)
(* never becomes a Task at all, whichever other task calls C.  (Stated for *)
(* the C that the caller did not append as roots.)                         *)
(***************************************************************************)
C16_IgnoredNeverTask ==
    \A t \in NodeSet : \A c \in ChildSet(t) \ roots :
        IgnoresChild(t, c) =>
            /\ c \notin DOMAIN item_map
            /\ c \notin NodeSet
            /\ << t, c >> \notin edges

(***************************************************************************)
(* C16 as amended: the step of populate that meets a child C in the ignore *)
(* list of the expanding task T leaves the Task cache, the work queue, the *)
(* nodes and the edges as they are and populate goes on; there is never an *)
(* edge T -> C; C is a Task and a node only if it was appended as a root   *)
(* or a task other than T, which does not ignore C, has an edge to C.      *)
(***************************************************************************)
C16_IgnoredNoEdge ==
    /\ [](\A t \in NodeSet : \A c \in ChildSet(t) :
            IgnoresChild(t, c) =>
                /\ << t, c >> \notin edges
                /\ c \in DOMAIN item_map =>
                      \/ c \in roots
                      \/ \E u \in NodeSet \ {t} :
                            /\ << u, c >> \in edges
                            /\ c \notin IgnoreList(u))
    /\ [][ (pc = "children" /\ IgnoresChild(item, Head(todo))) =>
              /\ item_map' = item_map
              /\ queue' = queue
              /\ nodes' = nodes
              /\ edges' = edges
              /\ pc' # "idle" ]_vars

(* populate() has returned: one caller has an ignored child that is no     *)
(* Task, or an ignored child that another caller has brought in.           *)
C16_Witness ==
    /\ PopulateReturned
    /\ \E t \in NodeSet : \E c \in ChildSet(t) :
          /\ IgnoresChild(t, c)
          /\ c \notin DeadList
          /\ c \notin item_map[t].config.blacklist
          /\ t \notin SeqToSet(queue)
          /\ edges # {}
          /\ (c \notin DOMAIN item_map \/ (c \notin roots /\ \E u \in NodeSet : << u, c >> \in edges))


(***************************************************************************)
(* C17.  A child whose name is in the dead list is skipped with no graph   *)
(* effect: the step of populate that meets it resolves nothing, leaves the *)
(* Task cache, the work queue, the nodes and the edges as they are and     *)
(* goes on to the next child, whatever the caller's blacklist, ignore and  *)
(* expand settings and whether the index has a file for it or not; a name  *)
(* of the dead list is never the target of an edge, and is a Task, a node  *)
(* or queued only when the caller appended it as a root.                   *)
(***************************************************************************)
C17_DeadChildSkipped ==
    /\ [](\A e \in edges : e[2] \notin DeadList)
    /\ [](\A d \in DeadList :
            (d \in DOMAIN item_map \/ d \in NodeSet \/ d \in SeqToSet(queue)) =>
                d \in roots)
    /\ [][ (pc = "children" /\ Head(todo) \in DeadList) =>
              /\ item_map' = item_map
              /\ queue' = queue
              /\ nodes' = nodes
              /\ edges' = edges
              /\ todo' = Tail(todo)
              /\ pc' # "idle" ]_vars

(* populate() has returned after it expanded a Task that calls a name of   *)
(* the dead list with a file and one without, neither of which is a node.  *)
C17_Witness ==
    /\ PopulateReturned
    /\ edges # {}
    /\ \E t \in NodeSet :
          /\ t \notin SeqToSet(queue)
          /\ \E d \in (ChildSet(t) \cap DeadList) \cap DOMAIN obj_map : d \notin NodeSet
          /\ \E d \in (ChildSet(t) \cap DeadList) \ DOMAIN obj_map : d \notin NodeSet


(***************************************************************************)
(* C19.  The task graph and the Task cache grow monotonically: no step of  *)
(* append, populate or process, the steps that end a call with an error    *)
(* included, takes away a node, an edge or a cache entry, and the nodes    *)
(* and cache entries that stay are the same Tasks in the same order.       *)
(***************************************************************************)
C19_GraphAndCacheGrow ==
    [][ /\ Len(nodes) <= Len(nodes')
        /\ SubSeq(nodes', 1, Len(nodes)) = nodes
        /\ edges \subseteq edges'
        /\ DOMAIN item_map \subseteq DOMAIN item_map'
        /\ \A n \in DOMAIN item_map : item_map'[n] = item_map[n] ]_vars

(* A call has ended with an error after the graph had been built up, and   *)
(* what had been built is there.                                           *)
C19_Witness ==
    /\ pc = "idle"
    /\ ~last.ok
    /\ last.op = "populate"
    /\ Cardinality(edges) >= 2
    /\ Len(nodes) >= 3
    /\ NodeSet = DOMAIN item_map


(* The calls of the subroutine named n itself, in the file the index has   *)
(* for n: the call structure of the sources, whatever routine the Task of  *)
(* n holds.                                                                *)
OwnCalls(n) ==
    IF n \in DOMAIN obj_map
    THEN LET f == world.files[obj_map[n]]
             ks == { k \in 1..Len(f.subs) : f.subs[k].name = n }
         IN  IF ks = {} THEN {}
             ELSE { c \in SeqToSet(f.subs[Min(ks)].calls) :
                      \A m \in f.subs[Min(ks)].members : Lower(m) # Lower(c) }
    ELSE {}

(* The call structure of the discovered routines. *)
CallStructure == { e \in NodeSet \X NodeSet : e[2] \in OwnCalls(e[1]) }

(***************************************************************************)
(* C20.  Whenever the call structure of the discovered routines is         *)
(* acyclic, the task graph that append and populate have built is acyclic, *)
(* and a process call does not end with the cycle error of the             *)
(* topological sort.                                                       *)
(***************************************************************************)
C20_AcyclicCallsAcyclicGraph ==
    /\ [](Acyclic(NodeSet, CallStructure) => Acyclic(NodeSet, edges))
    /\ [][ (pc = "process" /\ pc' = "idle" /\ Acyclic(NodeSet, CallStructure)) =>
              last'.err # "NetworkXUnfeasible" ]_vars


(* The Task n is passed to the transformation at this step. *)
Applied(n) ==
    /\ pc = "process"
    /\ n \in Ready(nodes, edges, visited)
    /\ \/ processed' = Append(processed, n)
       \/ (n \in world.raises /\ EndedWith(last', "process", "TransformationError"))

(* The enrichment pass calls enrich on the Task n at this step. *)
EnrichCalled(n) ==
    /\ pc = "enrich"
    /\ n = Head(enrichTodo)
    /\ enrichTodo' # enrichTodo

(***************************************************************************)
(* C21.  Each Task moves only forward through ... -> enriched ->           *)
(* processed: whatever the sequence of append, populate and process calls, *)
(* a Task that is passed to the transformation has been enriched and has   *)
(* not been processed before, and a Task that enrich is called on has not  *)
(* been processed.                                                         *)
(***************************************************************************)
C21_TaskMovesForward ==
    /\ [][ \A n \in NodeSet :
              Applied(n) => (n \in enriched /\ n \notin SeqToSet(processed)) ]_vars
    /\ [][ \A n \in NodeSet :
              EnrichCalled(n) => n \notin SeqToSet(processed) ]_vars


(* The scanned file i defines a subroutine named n. *)
DefinesSub(i, n) == \E k \in 1..Len(world.files[i].subs) : world.files[i].subs[k].name = n

(* The scanned files that define a subroutine named n. *)
Definers(n) == { i \in 1..Len(world.files) : DefinesSub(i, n) }

(* The names of the subroutines and of the modules the scanned files       *)
(* define.                                                                 *)
DefinedSubs ==
    UNION { { world.files[i].subs[k].name : k \in 1..Len(world.files[i].subs) } :
              i \in 1..Len(world.files) }

DefinedModules == UNION { world.files[i].mods : i \in 1..Len(world.files) }

(***************************************************************************)
(* C22.  A subroutine name that more than one scanned file defines is      *)
(* mapped by the source index to exactly one file, the one of them that    *)
(* is met last in scan order; a Task of that name has that file as path.   *)
(***************************************************************************)
C22_LastDefinerWins ==
    /\ \A n \in DefinedSubs :
          Cardinality(Definers(n)) > 1 =>
              (n \in DOMAIN obj_map /\ obj_map[n] = Max(Definers(n)))
    /\ \A n \in DOMAIN item_map :
          Cardinality(Definers(n)) > 1 => item_map[n].path = Max(Definers(n))


(* The first scanned file whose stem is, in lower case, that of file i:    *)
(* the file that is read for every file of that stem.                      *)
StemHead(i) ==
    Min({ j \in 1..Len(world.files) :
            Lower(world.files[j].stem) = Lower(world.files[i].stem) })

(* The scanned files for which a file that defines n is read. *)
Registrars(n) == { i \in 1..Len(world.files) : DefinesSub(StemHead(i), n) }

(***************************************************************************)
(* C23 as stated: a file scanned later never overwrites the mapping that   *)
(* an earlier scanned file registered for a name; the name keeps resolving *)
(* to the first file that defined it.                                      *)
(***************************************************************************)
C23_FirstDefinerKept ==
    /\ \A n \in DOMAIN obj_map : obj_map[n] = Min(Definers(n))
    /\ \A n \in DOMAIN item_map : item_map[n].path = Min(Definers(n))

(***************************************************************************)
(* C23 as amended: a file scanned later overwrites the mapping of an       *)
(* earlier one: a name resolves to what is read for the last scanned file  *)
(* that registers it.  Only for a later file whose lower-cased stem is     *)
(* that of an earlier file nothing new is read: the earlier file of that   *)
(* stem is registered again in its place.                                  *)
(***************************************************************************)
C23_LaterScanOverwrites ==
    /\ \A n \in DefinedSubs :
          /\ n \in DOMAIN obj_map <=> Registrars(n) # {}
          /\ Registrars(n) # {} => obj_map[n] = StemHead(Max(Registrars(n)))
    /\ \A n \in DOMAIN item_map : item_map[n].path = StemHead(Max(Registrars(n)))

(* A Task has been built from the second of two files of different stems   *)
(* that define its name, and populate has found no call in it.             *)
C23_Witness ==
    /\ PopulateReturned
    /\ \E n \in DOMAIN item_map :
          /\ Cardinality(Definers(n)) = 2
          /\ StemHead(Max(Definers(n))) = Max(Definers(n))
          /\ item_map[n].path = Max(Definers(n))
          /\ CallsOf(n) = {}
          /\ SeqToSet(world.files[Min(Definers(n))].subs[1].calls) # {}

(***************************************************************************)
(* C24.  find_path finds, for the name of every subroutine and of every    *)
(* module that a scanned file defines, a file that defines it: the name is *)
(* in the source index, mapped to such a file, and append of it does not   *)
(* end with the error of find_path.                                        *)
(***************************************************************************)
C24_EveryDefinitionResolves ==
    /\ [](\A n \in DefinedSubs : n \in DOMAIN obj_map /\ DefinesSub(obj_map[n], n))
    /\ [](\A n \in DefinedModules :
            n \in DOMAIN obj_map /\ n \in world.files[obj_map[n]].mods)
    /\ [][ \A n \in world.names \cap (DefinedSubs \cup DefinedModules) :
              AppendCall(<< n >>) => last'.err # "RuntimeError" ]_vars

(***************************************************************************)
(* C25.  Within populate no Task is enriched while the work queue is       *)
(* non-empty: the enrichment pass starts only once the queue is drained,   *)
(* it is set to visit every node of the task graph, the graph no longer    *)
(* changes while it runs, each Task it enriches is handed the routines of  *)
(* all the nodes of that final graph, and populate returns from it only    *)
(* when every node has been visited.                                       *)
(***************************************************************************)
(* One step that enriches a Task or moves the enrichment pass. *)
EnrichMoves ==
    \/ enriched' # enriched
    \/ passed' # passed
    \/ enrichTodo' # enrichTodo

C25_PassStep ==
    EnrichMoves =>
        /\ queue = << >> /\ queue' = << >> /\ todo = << >>
        /\ nodes' = nodes /\ edges' = edges /\ item_map' = item_map
        /\ pc = "drain" => (pc' = "enrich" /\ enrichTodo' = nodes /\ passed' = passed)
        /\ pc = "enrich" =>
              /\ enrichTodo # << >>
              /\ (pc' = "enrich" \/ last'.ok \/ passed' # passed) =>
                    /\ Head(enrichTodo) \in enriched'
                    /\ DOMAIN passed' = DOMAIN passed \cup { Head(enrichTodo) }
                    /\ passed'[Head(enrichTodo)] = Routines(item_map, nodes)
                    /\ \A n \in DOMAIN passed \ { Head(enrichTodo) } : passed'[n] = passed[n]
              /\ (pc' = "idle" /\ last'.ok) => enrichTodo' = << >>
              /\ pc' = "enrich" => enrichTodo' = Tail(enrichTodo)
        /\ pc \in {"drain", "enrich"}

C25_EnrichAfterDrain ==
    /\ [](pc = "enrich" => queue = << >>)
    /\ [][C25_PassStep]_vars
    /\ [](PopulateReturned =>
            \A n \in NodeSet :
                /\ n \in enriched
                /\ n \in DOMAIN passed
                /\ passed[n] = Routines(item_map, nodes))

(* populate() has returned for a graph it grew by at least two Tasks: each *)
(* node has been handed the routines of all of them.                       *)
C25_Witness ==
    /\ PopulateReturned
    /\ Len(nodes) >= 3
    /\ Cardinality(edges) >= 2
    /\ \A n \in NodeSet : n \in DOMAIN passed /\ Len(passed[n]) = Len(nodes)

(***************************************************************************)
(* C26.  The names of a Task's `enrich` config are loaded for their        *)
(* signatures only: the enrichment pass adds no node and no edge to the    *)
(* task graph, no entry to the Task cache and nothing to the work queue,   *)
(* and such a name is a Task, and handed to the transformation, only when  *)
(* it has been found as an ordinary task: appended by the caller or called *)
(* by a Task that has an edge to it.                                       *)
(***************************************************************************)
(* The names the `enrich` lists of the Tasks hold. *)
EnrichNames ==
    UNION { SeqToSet(Get(item_map[t].config, "enrich", << >>)) : t \in DOMAIN item_map }

(* n has been discovered as a Task in its own right. *)
OrdinaryTask(n) ==
    \/ n \in roots
    \/ \E t \in NodeSet : << t, n >> \in edges /\ n \in ChildSet(t)

C26_PassAddsNothing ==
    (pc = "enrich") =>
        /\ nodes' = nodes
        /\ edges' = edges
        /\ item_map' = item_map
        /\ queue' = queue
        /\ processed' = processed

C26_EnrichNamesOnlyLoaded ==
    /\ [][C26_PassAddsNothing]_vars
    /\ [](\A n \in EnrichNames :
            /\ (n \in DOMAIN item_map \/ n \in NodeSet \/ n \in SeqToSet(queue))
                  => OrdinaryTask(n)
            /\ (n \in SeqToSet(processed) \/ n \in SeqToSet(visited))
                  => OrdinaryTask(n))

(* The graph of driverB has been populated and processed: kernelb has been *)
(* enriched with the signatures of ext_driver, which is no Task.           *)
C26_Witness ==
    /\ world = EnrichWorld
    /\ pc = "idle"
    /\ EndedWith(last, "process", "none")
    /\ "kernelb" \in enriched
    /\ "ext_driver" \in EnrichNames
    /\ "ext_driver" \notin DOMAIN item_map
    /\ SeqToSet(processed) = {"driverB", "kernelb"}

(***************************************************************************)
(* C27.  Membership tests on names are blind to letter case at every       *)
(* lookup: the child under examination gets the verdict that its           *)
(* lower-cased name gets against the lower-cased blacklist, ignore list    *)
(* and dead list of its caller, and two names that differ in letter case   *)
(* only are the same key of the source index and of the Task cache.        *)
(***************************************************************************)
LowerAll(S) == { Lower(x) : x \in S }

(* The config with its blacklist and ignore list in lower case. *)
LowerLists(cfg) ==
    [k \in DOMAIN cfg |->
        IF k \in {"blacklist", "ignore"} THEN LowerAll(cfg[k]) ELSE cfg[k]]

(* The names the run comes across: those its caller may append and the     *)
(* calls of the scanned routines.                                          *)
NamesMet ==
    world.names \cup
    UNION { UNION { SeqToSet(world.files[i].subs[k].calls) :
                      k \in 1..Len(world.files[i].subs) } :
            i \in 1..Len(world.files) }

SameButCase(x, y) == x # y /\ Lower(x) = Lower(y)

C27_PrunedWhateverTheCase ==
    pc = "children" =>
        ChildVerdict(item_map[item].config, Head(todo))
            = ChildVerdict(LowerLists(item_map[item].config), Lower(Head(todo)))

C27_OneKeyWhateverTheCase ==
    \A x \in NamesMet : \A y \in NamesMet \cup DOMAIN obj_map \cup DOMAIN item_map :
        SameButCase(x, y) =>
            /\ y \in DOMAIN obj_map => (x \in DOMAIN obj_map /\ obj_map[x] = obj_map[y])
            /\ (x \in DOMAIN item_map /\ y \in DOMAIN item_map) => item_map[x] = item_map[y]

C27_CaseBlindMembership ==
    /\ C27_PrunedWhateverTheCase
    /\ C27_OneKeyWhateverTheCase

(***************************************************************************)
(* C28.  Task.children gives the names called in the body of the routine,  *)
(* in order, but for those whose lower-cased name is the lower-cased name  *)
(* of a member subroutine of the routine; a call to a member subroutine    *)
(* is never looked up in the source index and never gives a node or an     *)
(* edge.                                                                   *)
(***************************************************************************)
(* The routine the Task t holds. *)
RoutineOf(t) == world.files[item_map[t].routine].subs[1]

(* The call c of the Task t is a call to one of its member subroutines. *)
MemberCall(t, c) ==
    /\ item_map[t].routine # 0
    /\ \E m \in RoutineOf(t).members : Lower(m) = Lower(c)

(* The calls of t left when the calls to members are struck out. *)
RECURSIVE NonMemberCalls(_, _)
NonMemberCalls(t, calls) ==
    IF calls = << >> THEN << >>
    ELSE IF MemberCall(t, Head(calls))
         THEN NonMemberCalls(t, Tail(calls))
         ELSE << Head(calls) >> \o NonMemberCalls(t, Tail(calls))

(* populate takes the children of the Task it has dequeued. *)
C28_TakesChildren ==
    (pc = "drain" /\ queue' # queue /\ pc' \in {"drain", "children"}) =>
        todo' = NonMemberCalls(item', RoutineOf(item').calls)

C28_MemberCallsAreNoChildren ==
    /\ [][C28_TakesChildren]_vars
    /\ [](pc = "children" =>
            \A i \in 1..Len(todo) : ~MemberCall(item, todo[i]))
    /\ [](\A t \in NodeSet : \A c \in NamesMet :
            MemberCall(t, c) =>
                /\ << t, c >> \notin edges
                /\ (c \in NodeSet \/ c \in DOMAIN item_map) => OrdinaryTask(c))

(* h, which calls its members a and C and the routines b and c2, has been  *)
(* expanded: b and c2 are its callees in the graph, a is no Task.          *)
C28_Witness ==
    /\ world = MemberWorld
    /\ PopulateReturned
    /\ edges = { << "h", "b" >>, << "h", "c2" >> }
    /\ MemberCall("h", "A") /\ MemberCall("h", "a") /\ MemberCall("h", "c")
    /\ "a" \in DOMAIN obj_map
    /\ "a" \notin NodeSet

(***************************************************************************)
(* C29.  populate drains the work queue first in, first out, so Tasks are  *)
(* expanded breadth first: with the roots appended before the first        *)
(* populate call, the Tasks stand in the task graph in the order of their  *)
(* discovery, which is by non-decreasing call depth from the roots, the    *)
(* queue holds the Tasks not yet dequeued in that same order, and so a     *)
(* Task at depth d is never dequeued after a Task of greater depth.        *)
(***************************************************************************)
(* The names within k followed calls of the roots. *)
RECURSIVE Within(_)
Within(k) ==
    IF k = 0 THEN roots
    ELSE LET S == Within(k - 1)
         IN  S \cup UNION { Followed(n) : n \in S }

(* The call depth of a Task from the roots. *)
RECURSIVE DepthFrom(_, _)
DepthFrom(n, k) == IF n \in Within(k) \/ k >= Len(nodes) THEN k ELSE DepthFrom(n, k + 1)

Depth(n) == DepthFrom(n, 0)

(* No populate call has gone beyond draining the queue yet, and none has   *)
(* been left with an error while draining.                                 *)
FirstPopulate == enriched = {} /\ ~aborted /\ pc \in {"idle", "drain", "children"}

(* The Tasks dequeued so far, in the order of their dequeuing: the Task    *)
(* under expansion is the last of them.                                    *)
C29_DequeuesOldest ==
    (FirstPopulate /\ pc = "drain" /\ queue' # queue /\ pc' # "idle") =>
        /\ item' = Head(queue)
        /\ \A i \in 1..Len(queue') : Depth(item') <= Depth(queue'[i])
        /\ \A n \in NodeSet \ (SeqToSet(queue) \cup {item'}) : Depth(n) <= Depth(item')

C29_BreadthFirst ==
    /\ [][C29_DequeuesOldest]_vars
    /\ [](FirstPopulate =>
            /\ \A n \in NodeSet : n \in Within(Len(nodes))
            /\ \A i \in 1..Len(nodes) : \A j \in i..Len(nodes) :
                  Depth(nodes[i]) <= Depth(nodes[j])
            /\ queue = SubSeq(nodes, Len(nodes) - Len(queue) + 1, Len(nodes)))

(* The queue of projA appended at driverA has been drained: the Tasks of   *)
(* depth 2 stand before those of depth 3.                                  *)
C29_Witness ==
    /\ world = ProjASimple
    /\ FirstPopulate
    /\ pc = "drain"
    /\ queue = << >>
    /\ roots = {"driverA"}
    /\ nodes = << "driverA", "kernela", "compute_l1", "another_l1",
                  "compute_l2", "another_l2" >>
    /\ Depth("another_l1") = 2
    /\ Depth("compute_l2") = 3

(***************************************************************************)
(* C30.  The nodes and edges populate produces depend on the call          *)
(* structure, the roots and the options expand, blacklist, ignore and      *)
(* strict only: with per-routine overrides of other options (role, mode,   *)
(* name, enrich, ...) every child gets the verdict it gets without them,   *)
(* and a populate that returned, in a run without an aborted populate,     *)
(* has produced the nodes and edges of the run without them.               *)
(***************************************************************************)
GraphOptions == {"expand", "blacklist", "ignore", "strict"}

(* The override of n with the options that bear on the graph only. *)
BareOverride(n) ==
    [k \in DOMAIN world.routines[n] \cap GraphOptions |-> world.routines[n][k]]

(* The config of the Task of n in the run without the other overrides. *)
BareCfg(n) ==
    IF n \in DOMAIN world.routines
    THEN Update(world.default, BareOverride(n))
    ELSE world.default

(* The calls followed out of n in the run without the other overrides. *)
BareFollowed(n) ==
    { c \in CallsOf(n) : ChildVerdict(BareCfg(n), c) = "append" }

RECURSIVE BareReach(_)
BareReach(S) ==
    LET T == S \cup UNION { BareFollowed(n) : n \in S }
    IN  IF T = S THEN S ELSE BareReach(T)

(* Some Task of the graph has an override of an option that does not bear  *)
(* on the graph.                                                           *)
OtherOverrides ==
    \E n \in NodeSet \cap DOMAIN world.routines :
        DOMAIN world.routines[n] \ GraphOptions # {}

C30_GraphIgnoresOtherOptions ==
    /\ \A n \in NodeSet : \A c \in NamesMet :
          ChildVerdict(item_map[n].config, c) = ChildVerdict(BareCfg(n), c)
    /\ \A n \in NodeSet :
          item_map[n].routine = (IF TaskOutcome([world EXCEPT !.routines =
                                      [m \in DOMAIN world.routines |-> BareOverride(m)]],
                                      n, item_map[n].path) = "parsed"
                                 THEN item_map[n].path ELSE 0)
    /\ (PopulateReturned /\ ~aborted) =>
          /\ NodeSet = BareReach(roots)
          /\ edges = UNION { { << n, c >> : c \in BareFollowed(n) } : n \in BareReach(roots) }

(* projA under the config of test_scheduler_process, whose overrides make  *)
(* compute_l1 and another_l1 drivers: populate has returned with their     *)
(* callees as nodes.                                                       *)
C30_Witness ==
    /\ world = ProjAProcess
    /\ PopulateReturned
    /\ ~aborted
    /\ edges = { << "compute_l1", "compute_l2" >>, << "another_l1", "another_l2" >> }
    /\ OtherOverrides
    /\ item_map["compute_l1"].config.role = "driver"
    /\ BareCfg("compute_l1").role = "kernel"

(***************************************************************************)
(* C32.  In every state that append, populate and process calls reach,     *)
(* those that raise included, the Tasks of the name -> Task cache are the  *)
(* nodes of the task graph, each under its own name and once, every Task   *)
(* of the work queue is in the cache, and both ends of every edge are      *)
(* nodes.                                                                  *)
(***************************************************************************)
C32_CacheIsNodeSet ==
    /\ DOMAIN item_map = NodeSet
    /\ \A n \in NodeSet : Count(nodes, n) = 1 /\ item_map[n].name = n
    /\ SeqToSet(queue) \subseteq DOMAIN item_map
    /\ (pc = "children" => item \in DOMAIN item_map)
    /\ \A e \in edges : e[1] \in NodeSet /\ e[2] \in NodeSet

(* A populate call has raised with Tasks left in the queue and edges in    *)
(* the graph.                                                              *)
C32_Witness ==
    /\ pc = "idle"
    /\ last.op = "populate"
    /\ ~last.ok
    /\ queue # << >>
    /\ edges # {}
    /\ Cardinality(DOMAIN item_map) >= 3

(***************************************************************************)
(* C33.  populate terminates for every finite call structure, recursive    *)
(* and mutually recursive routines included: a populate call that has      *)
(* been made comes to its end; a Task enters the work queue only when it   *)
(* is created and leaves it at most once, so it is enqueued and dequeued   *)
(* at most once in the life of the Scheduler; a routine that calls itself  *)
(* gets an edge to itself and no second Task; and when populate returns    *)
(* the work queue is empty.                                                *)
(***************************************************************************)
InPopulate == pc \in {"drain", "children", "enrich"}

(* The Tasks that have left the work queue. *)
Dequeued == NodeSet \ SeqToSet(queue)

C33_QueueStep ==
    /\ \A n \in SeqToSet(queue') \ SeqToSet(queue) : n \notin DOMAIN item_map
    /\ Dequeued \subseteq (NodeSet' \ SeqToSet(queue'))
    /\ \A n \in SeqToSet(queue') : Count(queue', n) = 1

C33_PopulateTerminates ==
    /\ InPopulate ~> pc = "idle"
    /\ [][C33_QueueStep]_vars
    /\ [](PopulateReturned => queue = << >>)
    /\ [](\A n \in NodeSet :
            /\ Count(nodes, n) = 1
            /\ (n \in Dequeued /\ n \in Followed(n) /\ ~aborted /\ pc = "idle")
                  => << n, n >> \in edges)

(* populate has returned for p, q and r, which call one another, and q     *)
(* itself: the queue is empty and q has an edge to itself.                 *)
C33_Witness ==
    /\ world = CycWorld
    /\ PopulateReturned
    /\ queue = << >>
    /\ << "q", "q" >> \in edges
    /\ << "p", "q" >> \in edges
    /\ << "q", "p" >> \in edges
    /\ Count(nodes, "q") = 1

(***************************************************************************)
(* C34.  If the task graph has a cycle, a process call never completes     *)
(* normally: it raises, and in that call no Task that lies on a cycle or   *)
(* can be reached from one is handed to the transformation or appended to  *)
(* `processed`.                                                            *)
(***************************************************************************)
(* The nodes that have an edge from a node of S. *)
Successors(S) == { e[2] : e \in { d \in edges : d[1] \in S } }

(* The nodes reached from S along edges, S included. *)
RECURSIVE GraphReach(_)
GraphReach(S) ==
    LET T == S \cup Successors(S)
    IN  IF T = S THEN S ELSE GraphReach(T)

(* The nodes on a cycle, and those reachable from one. *)
OnCycle == { n \in NodeSet : n \in GraphReach(Successors({n})) }

Tainted == GraphReach(OnCycle)

C34_ProcessStep ==
    (pc = "process" /\ OnCycle # {}) =>
        /\ ~(pc' = "idle" /\ last'.ok)
        /\ pc' = "idle" => (last'.op = "process" /\ last'.err # "none")
        /\ Len(processed') > Len(processed) =>
              /\ Len(processed') = Len(processed) + 1
              /\ processed'[Len(processed')] \notin Tainted
        /\ SeqToSet(visited') \cap Tainted = {}

C34_CycleMakesProcessRaise ==
    /\ [][C34_ProcessStep]_vars
    /\ [](OnCycle = {} <=> Acyclic(NodeSet, edges))
    /\ []((pc = "process" /\ OnCycle # {}) =>
            /\ Ready(nodes, edges, visited) \cap Tainted = {}
            /\ SeqToSet(visited) \cap Tainted = {}
            /\ SeqToSet(AddedByThisCall) \cap Tainted = {})

(* process has raised on the graph of r, p and q: r, which calls into the  *)
(* cycle of p and q, is the one Task processed.                            *)
C34_Witness ==
    /\ world = CycWorld
    /\ pc = "idle"
    /\ EndedWith(last, "process", "NetworkXUnfeasible")
    /\ NodeSet = {"p", "q", "r"}
    /\ OnCycle = {"p", "q"}
    /\ processed = << "r" >>

(***************************************************************************)
(* C35.  After any sequence of append, populate and process calls no Task  *)
(* appears more than once in `processed`, and `processed` is never longer  *)
(* than the task graph has nodes.                                          *)
(***************************************************************************)
C35_ProcessedHasNoRepeats ==
    /\ \A n \in SeqToSet(processed) : Count(processed, n) = 1
    /\ Len(processed) <= Len(nodes)

(***************************************************************************)
(* C36.  When populate ends because a child's name is not in the source    *)
(* index, nothing is rolled back: the nodes and edges added so far stay,   *)
(* the unresolved name has no node, no edge and no cache entry, no Task    *)
(* has been enriched in that call, and the Task under expansion has left   *)
(* the work queue for good, so that no later populate call expands the     *)
(* children that came after the unresolved one.                            *)
(***************************************************************************)
(* populate ends at this step on a child the index does not have. *)
UnresolvedChildEnds ==
    /\ pc = "children"
    /\ pc' = "idle"
    /\ EndedWith(last', "populate", "RuntimeError")

(* The children of the Task t that stand after its first child that is     *)
(* appended and unresolved: those populate never came to.                  *)
CutOff(t) ==
    LET cs == Children(world, item_map[t])
        stop == { i \in 1..Len(cs) :
                    /\ ChildVerdict(item_map[t].config, cs[i]) = "append"
                    /\ Unresolved(cs[i]) }
    IN  IF stop = {} THEN {}
        ELSE { cs[i] : i \in (Min(stop) + 1)..Len(cs) }
             \ { cs[i] : i \in 1..(Min(stop) - 1) }

C36_AbortStep ==
    UnresolvedChildEnds =>
        /\ Unresolved(Head(todo))
        /\ nodes' = nodes /\ edges' = edges /\ item_map' = item_map
        /\ queue' = queue
        /\ enriched' = enriched /\ passed' = passed
        /\ item \in DOMAIN item_map'
        /\ item \notin SeqToSet(queue')
        /\ Head(todo) \notin DOMAIN item_map'
        /\ Head(todo) \notin SeqToSet(nodes')
        /\ \A e \in edges' : e[1] # Head(todo) /\ e[2] # Head(todo)

C36_NothingRolledBack ==
    /\ [][C36_AbortStep]_vars
    /\ [][\A n \in SeqToSet(queue') \ SeqToSet(queue) : n \notin DOMAIN item_map]_vars
    /\ [](\A t \in Dequeued : \A c \in (IF item_map[t].routine = 0 THEN {} ELSE CutOff(t)) :
            << t, c >> \notin edges)
    /\ [](\A n \in DOMAIN item_map \cup NodeSet \cup { e[2] : e \in edges } :
            ~Unresolved(n))

(* populate has ended on the call of top to ghost, after the edge to leaf   *)
(* and before the child mid; a later populate call has returned without    *)
(* the edge to mid.                                                        *)
C36_Witness ==
    /\ world = ErrWorld
    /\ aborted
    /\ PopulateReturned
    /\ "top" \in Dequeued
    /\ << "top", "leaf" >> \in edges
    /\ "mid" \in CutOff("top")
    /\ << "top", "mid" >> \notin edges
    /\ "ghost" \notin DOMAIN item_map

(***************************************************************************)
(* C37.  process changes the `processed` list only: no step of it changes  *)
(* the nodes or edges of the task graph, the Task cache or the work queue; *)
(* a call that returns has visited every node of the graph, the Tasks      *)
(* that still wait in the work queue included; append and populate leave   *)
(* `processed` as it is.                                                   *)
(***************************************************************************)
C37_ProcessStep ==
    /\ (pc = "process" \/ pc' = "process") =>
          /\ nodes' = nodes /\ edges' = edges
          /\ item_map' = item_map /\ queue' = queue
          /\ enriched' = enriched /\ roots' = roots
    /\ pc # "process" => processed' = processed
    /\ (pc = "process" /\ pc' = "idle" /\ last'.ok) =>
          /\ SeqToSet(nodes) \subseteq SeqToSet(visited)
          /\ SeqToSet(queue) \subseteq SeqToSet(AddedByThisCall)
          /\ Len(visited) = Len(nodes)

C37_ProcessOnlyAppendsProcessed == [][C37_ProcessStep]_vars

(* process has returned while a Task that was never expanded waits in the  *)
(* work queue: it has been processed with the others.                      *)
C37_Witness ==
    /\ pc = "idle"
    /\ EndedWith(last, "process", "none")
    /\ queue # << >>
    /\ edges # {}
    /\ SeqToSet(queue) \subseteq SeqToSet(processed)
    /\ Len(processed) = Len(nodes)

(***************************************************************************)
(* C38.  Scheduler instances are independent: the file find_path returns   *)
(* for a name in one Scheduler depends on that Scheduler's own paths and   *)
(* files only, not on the Schedulers and Obj objects built before it in    *)
(* the process: its index is the index it gets when it is the first one    *)
(* built, and every name resolves to a file of its own tree.               *)
(***************************************************************************)
(* The index of a Scheduler over the tree t built in a fresh process. *)
FreshObjMap(t) == CachedObjMap(world, << >>, t, Trees[t])

C38_SchedulersIndependent ==
    \A k \in 1..Len(schedulers) :
        /\ schedulers[k].obj_map = FreshObjMap(schedulers[k].tree)
        /\ \A r \in DOMAIN schedulers[k].obj_map :
              schedulers[k].obj_map[r].tree = schedulers[k].tree

(***************************************************************************)
(* C31.  In the script variant, TaskScheduler.process traverses the items  *)
(* once the queue is drained so that for every edge parent -> child the    *)
(* parent is processed before the child; a call that returns has appended  *)
(* every node of the graph to `processed` exactly once, the items whose    *)
(* kernel_map[mode][role] is None included, and has called the kernel of   *)
(* exactly the others.                                                     *)
(***************************************************************************)
(* The Tasks of s that have a kernel, in the order of s. *)
WithKernel(s) == SelectSeq(s, LAMBDA n : KernelOf(world, item_map[n]) # "None")

C31_TraverseStep ==
    (pc = "process" /\ pc' = "idle" /\ last'.ok) =>
        /\ Len(visited) = Len(nodes)
        /\ Len(visited) <= Len(processed)
        /\ \A n \in NodeSet : Count(visited, n) = 1 /\ Count(AddedByThisCall, n) = 1
        /\ processed' = processed

C31_ScriptProcessOrder ==
    /\ [][C31_TraverseStep]_vars
    /\ [](pc = "process" =>
            /\ queue = << >>
            /\ Len(visited) <= Len(processed)
            /\ AddedByThisCall = visited
            /\ invoked = WithKernel(visited)
            /\ \A n \in SeqToSet(visited) : Count(visited, n) = 1
            /\ \A e \in edges :
                  (e[2] \in SeqToSet(visited) /\ e[1] # e[2]) =>
                      /\ e[1] \in SeqToSet(visited)
                      /\ Pos(visited, e[1]) < Pos(visited, e[2]))

(* process has returned for the graph of driver: all six Tasks are in      *)
(* `processed`, driver, for whose role the kernel_map has None, first and  *)
(* without a kernel call.                                                  *)
C31_Witness ==
    /\ world = ScriptProj
    /\ pc = "idle"
    /\ EndedWith(last, "process", "none")
    /\ Len(nodes) = 6
    /\ processed = visited
    /\ processed[1] = "driver"
    /\ KernelOf(world, item_map["driver"]) = "None"
    /\ "driver" \notin SeqToSet(invoked)
    /\ Len(invoked) = 5

====
